---- MODULE Spec2Model ----
(***************************************************************************)
(* Model of the package integrity engine of pptx-service                   *)
(* (src/pptx_tools.py, src/main.py): an unpacked presentation package as   *)
(* a tree of parts, and the operations clean, duplicate_slide,             *)
(* add_slide_to_presentation (insert_slide), the slide removal of          *)
(* apply_xml_modifications (remove_slide), repack_pptx and unpack.         *)
(*                                                                         *)
(* A part path is a record [d, n, r]: d is the directory under ppt/, n the *)
(* number in the file name (slide3.xml, chart1.xml, image2.png) and r says *)
(* whether the path is the relationships file kept in the adjacent _rels/  *)
(* directory (ppt/slides/_rels/slide3.xml.rels).                           *)
(*                                                                         *)
(* ppt/presentation.xml is modelled as the sequence of the tags the code's *)
(* regular expressions look at: "head" (everything before the slide list), *)
(* "open" (<p:sldIdLst>), "sldId" (<p:sldId id=".." r:id=".."/>), "close"  *)
(* (</p:sldIdLst>), "empty" (<p:sldIdLst/>) and "tail" (the rest, starting *)
(* with the self-closing <p:sldSz .../>).                                  *)
(***************************************************************************)
EXTENDS Integers, Sequences, FiniteSets, TLC

(***************************************************************************)
(* Bounds of the model.                                                    *)
(***************************************************************************)
\* an initial package holds 0 .. InitSlides slide files, slide1.xml onwards
InitSlides == 1
\* calls made on a package, over all its sessions
MaxOps == 4
\* insert positions 0 .. MaxPos are tried, and FarPos
MaxPos == 2
\* the planned edit starts from 1 .. E2ESlides slides
E2ESlides == 5

\* a position far beyond any list length (10_000 in the specification)
FarPos == 10000
\* position = None of add_slide_to_presentation
NoPos == -1

(***************************************************************************)
(* Part paths.                                                             *)
(***************************************************************************)
Part(d, n) == [d |-> d, n |-> n, r |-> FALSE]

RelsFile(p) == [p EXCEPT !.r = TRUE]

OwnerOf(rf) == [rf EXCEPT !.r = FALSE]

SlidePart(n) == Part("slides", n)

PresentationPart == Part("ppt", 0)

PresRelsPart == RelsFile(PresentationPart)

ContentTypesPart == Part("root", 0)

TrashFile == Part("[trash]", 1)

Max(S) == CHOOSE x \in S : \A y \in S : y <= x

(***************************************************************************)
(* presentation.xml as a tag sequence, and the regular expressions the     *)
(* code runs over it.                                                      *)
(***************************************************************************)
Tok(t) == [t |-> t, id |-> 0, rid |-> 0]

SldId(id, rid) == [t |-> "sldId", id |-> id, rid |-> rid]

\* re.findall(r'<p:sldId[^>]*r:id="([^"]+)"', pres_content): [^>]* cannot
\* leave the tag, so only <p:sldId .../> tags match, in document order
SldIdEntries(pres) == SelectSeq(pres, LAMBDA k : k.t = "sldId")

ReferencedRids(pres) == {SldIdEntries(pres)[i].rid : i \in 1..Len(SldIdEntries(pres))}

\* re.findall(r'<p:sldId[^>]*id="(\d+)"', pres_content)
SlideIds(pres) == {SldIdEntries(pres)[i].id : i \in 1..Len(SldIdEntries(pres))}

\* the first "/" of the tag text is followed by optional space and ">"
SlashEndsTag(k) == k.t \in {"sldId", "empty", "tail"}

\* the tag text contains no "/" at all
NoSlash(k) == k.t = "open"

\* the tag text starts with "<p:sldId"
StartsSldId(k) == k.t \in {"sldId", "open", "empty"}

\* index of the first tag at or after i that contains a "/", 0 if none
RECURSIVE FirstSlash(_, _)
FirstSlash(pres, i) ==
    IF i > Len(pres) THEN 0
    ELSE IF NoSlash(pres[i]) THEN FirstSlash(pres, i + 1)
    ELSE i

\* re.findall(r'(<p:sldId[^/]*/\s*>)', pres_content): each match runs from a
\* tag starting with "<p:sldId" to the first "/" after it, which must close
\* a tag; [^/]* crosses ">" and newlines, so a match that starts at
\* <p:sldIdLst> swallows the tags up to the end of the next self-closing tag
RECURSIVE ExistingEntriesFrom(_, _)
ExistingEntriesFrom(pres, i) ==
    IF i > Len(pres) THEN <<>>
    ELSE IF ~StartsSldId(pres[i]) THEN ExistingEntriesFrom(pres, i + 1)
    ELSE LET j == FirstSlash(pres, i)
         IN  IF j # 0 /\ SlashEndsTag(pres[j])
             THEN <<SubSeq(pres, i, j)>> \o ExistingEntriesFrom(pres, j + 1)
             ELSE ExistingEntriesFrom(pres, i + 1)

ExistingEntries(pres) == ExistingEntriesFrom(pres, 1)

\* index of the first tag of kind t at or after i, 0 if none
RECURSIVE FirstTag(_, _, _)
FirstTag(pres, t, i) ==
    IF i > Len(pres) THEN 0
    ELSE IF pres[i].t = t THEN i
    ELSE FirstTag(pres, t, i + 1)

\* re.sub(r'<p:sldIdLst>.*?</p:sldIdLst>', new_block, pres_content, DOTALL):
\* every non-overlapping shortest stretch from an opening tag to the next
\* closing tag is replaced by the new block
RECURSIVE SubBlock(_, _)
SubBlock(pres, block) ==
    LET i == FirstTag(pres, "open", 1)
        j == IF i = 0 THEN 0 ELSE FirstTag(pres, "close", i + 1)
    IN  IF i = 0 \/ j = 0 THEN pres
        ELSE SubSeq(pres, 1, i - 1) \o block
             \o SubBlock(SubSeq(pres, j + 1, Len(pres)), block)

\* "\n    ".join(existing_entries)
RECURSIVE Join(_)
Join(entries) ==
    IF entries = <<>> THEN <<>> ELSE Head(entries) \o Join(Tail(entries))

\* list.insert(idx, x) for 0 <= idx <= len
InsertAt(s, idx, x) == SubSeq(s, 1, idx) \o <<x>> \o SubSeq(s, idx + 1, Len(s))

\* pres_content.replace("</p:sldIdLst>", "  " + new_entry + "\n  </p:sldIdLst>")
RECURSIVE AppendBeforeClose(_, _)
AppendBeforeClose(pres, entry) ==
    IF pres = <<>> THEN <<>>
    ELSE IF Head(pres).t = "close"
         THEN <<entry, Head(pres)>> \o AppendBeforeClose(Tail(pres), entry)
         ELSE <<Head(pres)>> \o AppendBeforeClose(Tail(pres), entry)

\* idx = max(0, min(position - 1, len(existing_entries)))
ClampIndex(position, len) ==
    LET m == IF position - 1 < len THEN position - 1 ELSE len
    IN  IF m < 0 THEN 0 ELSE m

\* the text written back by add_slide_to_presentation
AddSlideToPresentation(pres, sld_id, r_id, position) ==
    LET new_entry == SldId(sld_id, r_id)
    IN  IF position # NoPos
        THEN LET existing_entries == ExistingEntries(pres)
                 idx == ClampIndex(position, Len(existing_entries))
                 entries == InsertAt(existing_entries, idx, <<new_entry>>)
                 new_block == <<Tok("open")>> \o Join(entries) \o <<Tok("close")>>
             IN  SubBlock(pres, new_block)
        ELSE AppendBeforeClose(pres, new_entry)

\* minidom parses the part: every <p:sldIdLst> has its </p:sldIdLst>
RECURSIVE Balanced(_, _)
Balanced(pres, depth) ==
    IF pres = <<>> THEN depth = 0
    ELSE IF Head(pres).t = "open" THEN Balanced(Tail(pres), depth + 1)
    ELSE IF Head(pres).t = "close"
         THEN depth > 0 /\ Balanced(Tail(pres), depth - 1)
    ELSE Balanced(Tail(pres), depth)

WellFormed(pres) == Balanced(pres, 0)

(***************************************************************************)
(* Relationships.  A relationship is a record [id, type, abs, to]: id is   *)
(* the number N of Id="rIdN" (0 where no code reads the Id), type the last *)
(* segment of the Type URI, to the part the Target denotes under the       *)
(* package rules, and abs says that the Target is written root-relative    *)
(* ("/ppt/media/image1.png") instead of relative to the owning part.       *)
(***************************************************************************)
Rel(type, abs, to) == [id |-> 0, type |-> type, abs |-> abs, to |-> to]

PresRel(id, type, to) == [id |-> id, type |-> type, abs |-> FALSE, to |-> to]

Range(s) == {s[i] : i \in 1..Len(s)}

Restrict(f, S) == [x \in S |-> f[x]]

\* (rels_file.parent.parent / target).resolve().relative_to(unpacked_dir):
\* joining onto a Target with a leading "/" gives a path outside the
\* unpacked directory, relative_to raises ValueError and the target is dropped
ResolvedTargets(relset) == {x.to : x \in {y \in relset : ~y.abs}}

\* _get_slide_referenced_files: the targets of ppt/slides/_rels/*.rels
GetSlideReferencedFiles(rels) ==
    UNION {ResolvedTargets(rels[rf]) : rf \in {f \in DOMAIN rels : f.d = "slides"}}

\* _get_referenced_files: the targets of every *.rels file of the tree
\* (_rels/.rels only names presentation.xml and docProps, which no sweep
\* looks at, and is left out)
GetReferencedFiles(rels, presRels) ==
    UNION {ResolvedTargets(rels[rf]) : rf \in DOMAIN rels}
        \cup ResolvedTargets(Range(presRels))

\* "slide" in rel_type: a substring test on the Type URI
TypeContainsSlide(type) == type \in {"slide", "slideMaster", "slideLayout"}

\* target.startswith("slides/")
TargetStartsWithSlides(rel) == ~rel.abs /\ rel.to.d = "slides" /\ ~rel.to.r

\* rid_to_slide of _get_slides_in_sldidlst: a dict filled in document order,
\* so the last relationship with a given Id wins
RidToSlide(presRels) ==
    LET hits(rid) == {i \in 1..Len(presRels) :
                        /\ presRels[i].id = rid
                        /\ TypeContainsSlide(presRels[i].type)
                        /\ TargetStartsWithSlides(presRels[i])}
        rids == {presRels[i].id : i \in {k \in 1..Len(presRels) : hits(presRels[k].id) # {}}}
    IN  [rid \in rids |-> presRels[Max(hits(rid))].to]

\* _get_slides_in_sldidlst
GetSlidesInSldIdLst(pres, presRels) ==
    LET rid_to_slide == RidToSlide(presRels)
    IN  {rid_to_slide[rid] : rid \in ReferencedRids(pres) \cap DOMAIN rid_to_slide}

\* slides_dir.glob("slide*.xml")
SlideFiles(files) == {f \in files : f.d = "slides" /\ ~f.r}

\* _remove_orphaned_slides: [files, presRels, removed]
RemoveOrphanedSlides(files, pres, presRels) ==
    LET referenced_slides == GetSlidesInSldIdLst(pres, presRels)
        gone == {f \in SlideFiles(files) : f \notin referenced_slides}
        removed == gone \cup ({RelsFile(f) : f \in gone} \cap files)
        keep(rel) == ~(TargetStartsWithSlides(rel) /\ rel.to \notin referenced_slides)
    IN  [files |-> files \ removed,
         presRels |-> IF removed # {} THEN SelectSeq(presRels, keep) ELSE presRels,
         removed |-> removed]

\* _remove_trash_directory
RemoveTrashDirectory(files) == {f \in files : f.d = "[trash]"}

RelsResourceDirs == {"charts", "diagrams", "drawings"}

ResourceDirs == {"media", "embeddings", "charts", "diagrams", "tags", "drawings", "ink"}

\* _remove_orphaned_rels_files: the files it unlinks
RemoveOrphanedRelsFiles(files, rels) ==
    LET slide_referenced == GetSlideReferencedFiles(rels)
    IN  {rf \in files : /\ rf.r
                        /\ rf.d \in RelsResourceDirs
                        /\ \/ OwnerOf(rf) \notin files
                           \/ OwnerOf(rf) \notin slide_referenced}

\* _remove_orphaned_files without its theme and notes-slide parts
RemoveOrphanedResources(files, referenced) ==
    {f \in files : ~f.r /\ f.d \in ResourceDirs /\ f \notin referenced}

\* _remove_orphaned_files: the files it unlinks
RemoveOrphanedFiles(files, referenced) ==
    LET res == {f \in files : ~f.r /\ f.d \in ResourceDirs /\ f \notin referenced}
        themes == {f \in files : ~f.r /\ f.d = "theme" /\ f \notin referenced}
        themeRels == {RelsFile(f) : f \in themes} \cap files
        notes == {f \in files : ~f.r /\ f.d = "notesSlides" /\ f \notin referenced}
        notesRels == {rf \in files : /\ rf.r
                                     /\ rf.d = "notesSlides"
                                     /\ OwnerOf(rf) \notin (files \ notes)}
    IN  UNION {res, themes, themeRels, notes, notesRels}

\* one pass of the while loop of clean: [files, rels, removed]
SweepPass(files, rels, presRels) ==
    LET removed_rels == RemoveOrphanedRelsFiles(files, rels)
        files1 == files \ removed_rels
        rels1 == Restrict(rels, DOMAIN rels \ removed_rels)
        referenced == GetReferencedFiles(rels1, presRels)
        removed_files == RemoveOrphanedFiles(files1, referenced)
        files2 == files1 \ removed_files
    IN  [files |-> files2,
         rels |-> Restrict(rels1, DOMAIN rels1 \ removed_files),
         removed |-> removed_rels \cup removed_files]

\* a clean that sweeps once instead of looping until nothing is removed
SweepOnce(files, rels, presRels, passes) ==
    LET p == SweepPass(files, rels, presRels)
    IN  [files |-> p.files, rels |-> p.rels, removed |-> p.removed, passes |-> passes + 1]

\* a loop that runs one more pass after the pass that removed nothing
RECURSIVE SweepLoopLate(_, _, _, _)
SweepLoopLate(files, rels, presRels, passes) ==
    LET p == SweepPass(files, rels, presRels)
    IN  IF p.removed = {}
        THEN [files |-> files, rels |-> rels, removed |-> {}, passes |-> passes + 2]
        ELSE LET rest == SweepLoopLate(p.files, p.rels, presRels, passes + 1)
             IN  [rest EXCEPT !.removed = p.removed \cup rest.removed]

\* the while loop of clean: passes until one removes nothing
RECURSIVE SweepLoop(_, _, _, _)
SweepLoop(files, rels, presRels, passes) ==
    LET p == SweepPass(files, rels, presRels)
    IN  IF p.removed = {}
        THEN [files |-> files, rels |-> rels, removed |-> {}, passes |-> passes + 1]
        ELSE LET rest == SweepLoop(p.files, p.rels, presRels, passes + 1)
             IN  [rest EXCEPT !.removed = p.removed \cup rest.removed]

\* part_name = override.getAttribute("PartName").lstrip("/"): the overrides
\* that stay are those whose part is not in removed_files
UpdateContentTypes(manifest, removed_files) == manifest \ removed_files

\* clean: [files, rels, presRels, manifest, removed, passes]
CleanResult(files, rels, pres, presRels, manifest) ==
    LET s == RemoveOrphanedSlides(files, pres, presRels)
        trash == RemoveTrashDirectory(s.files)
        files1 == s.files \ trash
        rels1 == Restrict(rels, DOMAIN rels \ s.removed)
        l == SweepLoop(files1, rels1, s.presRels, 0)
        all_removed == s.removed \cup trash \cup l.removed
    IN  [files |-> l.files,
         rels |-> l.rels,
         presRels |-> s.presRels,
         manifest |-> IF all_removed # {}
                      THEN UpdateContentTypes(manifest, all_removed)
                      ELSE manifest,
         removed |-> all_removed,
         passes |-> l.passes]

(***************************************************************************)
(* duplicate_slide, the slide removal of apply_xml_modifications, pack and *)
(* unpack as functions of the part tree.                                   *)
(***************************************************************************)
\* new_sld_id = max(slide_ids) + 1 if slide_ids else 256
FloorSldId == 256

\* a numbering that counts on from the smallest slide number
NextNumFromMin(files) ==
    LET existing == {f.n : f \in SlideFiles(files)}
    IN  IF existing # {} THEN (CHOOSE x \in existing : \A y \in existing : x <= y) + 1 ELSE 1

\* next_num = max(existing) + 1 if existing else 1
NextNum(files) ==
    LET existing == {f.n : f \in SlideFiles(files)}
    IN  IF existing # {} THEN Max(existing) + 1 ELSE 1

\* next_rid = max(rids) + 1 if rids else 1, over re.findall(r'Id="rId(\d+)"')
NextRid(presRels) ==
    LET rids == {presRels[i].id : i \in 1..Len(presRels)}
    IN  IF rids # {} THEN Max(rids) + 1 ELSE 1

\* an allocation that hands out the largest id in use
NewSldIdNoIncrement(pres) ==
    LET slide_ids == SlideIds(pres)
    IN  IF slide_ids # {} THEN Max(slide_ids) ELSE FloorSldId

NewSldId(pres) ==
    LET slide_ids == SlideIds(pres)
    IN  IF slide_ids # {} THEN Max(slide_ids) + 1 ELSE FloorSldId

\* a pattern that looks for the notes master instead of the notes slide
TypeEndsNotesMaster(type) == type = "notesMaster"

\* Type="[^"]*notesSlide": the Type URI ends in notesSlide
TypeEndsNotesSlide(type) == type = "notesSlide"

\* a duplicate_slide that appends the clone to the slide list itself
PresWithClone(pres, sld_id, r_id) == AppendBeforeClose(pres, SldId(sld_id, r_id))

\* presentation.xml after duplicate_slide: pres_content is read for the ids
\* and never written back
PresAfterDuplicate(pres, sld_id, r_id) == pres

\* f"slides/{dest}" not in pres_rels: a substring test, which a root-relative
\* Target "/ppt/slides/slideN.xml" satisfies as well
TargetMentioned(presRels, dest) == \E i \in 1..Len(presRels) : presRels[i].to = dest

\* no identifiers returned
NoResult == [new_filename |-> 0, new_sld_id |-> 0, new_r_id |-> 0]

\* source_slide.exists()
SourceExists(files, source) == source \in files

\* duplicate_slide from the allocation of the next file number on, the source being
\* there: [files, rels, bytes, presRels, manifest, pres, err, ret]
CopySlide(files, rels, bytes, pres, presRels, manifest, source) ==
    LET dest == SlidePart(NextNum(files))
        source_rels == RelsFile(source)
        dest_rels == RelsFile(dest)
        copied == source_rels \in files
        rid == NextRid(presRels)
        new_rel == PresRel(rid, "slide", dest)
    IN  [files |-> files \cup {dest} \cup (IF copied THEN {dest_rels} ELSE {}),
         bytes |-> [f \in DOMAIN bytes \cup {dest} |->
                        IF f = dest THEN bytes[source] ELSE bytes[f]],
         rels |-> IF copied
                  THEN [rf \in DOMAIN rels \cup {dest_rels} |->
                            IF rf = dest_rels
                            THEN {x \in rels[source_rels] : ~TypeEndsNotesSlide(x.type)}
                            ELSE rels[rf]]
                  ELSE rels,
         manifest |-> manifest \cup {dest},
         presRels |-> IF ~TargetMentioned(presRels, dest)
                      THEN Append(presRels, new_rel)
                      ELSE presRels,
         pres |-> PresAfterDuplicate(pres, NewSldId(pres), rid),
         err |-> "",
         ret |-> [new_filename |-> dest.n, new_sld_id |-> NewSldId(pres), new_r_id |-> rid]]

\* a duplicate_slide that registers the new slide in [Content_Types].xml
\* before it looks for the source
DuplicateSlideLateCheck(files, rels, bytes, pres, presRels, manifest, source) ==
    IF ~SourceExists(files, source)
    THEN [files |-> files, bytes |-> bytes, rels |-> rels,
          manifest |-> manifest \cup {SlidePart(NextNum(files))},
          presRels |-> presRels, pres |-> pres, err |-> "SourceNotFound", ret |-> NoResult]
    ELSE CopySlide(files, rels, bytes, pres, presRels, manifest, source)

\* duplicate_slide: raises FileNotFoundError before anything is written when
\* the source is missing
DuplicateSlide(files, rels, bytes, pres, presRels, manifest, source) ==
    IF ~SourceExists(files, source)
    THEN [files |-> files, bytes |-> bytes, rels |-> rels, manifest |-> manifest,
          presRels |-> presRels, pres |-> pres, err |-> "SourceNotFound", ret |-> NoResult]
    ELSE CopySlide(files, rels, bytes, pres, presRels, manifest, source)

\* re.search(rf'Id="(rId\d+)"[^>]*Target="slides/{filename}"', pres_rels):
\* the Id of the first relationship whose Target is slides/<filename>, 0 if
\* there is none
RIdMatch(presRels, slide) ==
    LET hits == {i \in 1..Len(presRels) :
                    TargetStartsWithSlides(presRels[i]) /\ presRels[i].to = slide}
    IN  IF hits = {} THEN 0 ELSE presRels[CHOOSE i \in hits : \A k \in hits : i <= k].id

\* re.sub(rf'\s*<p:sldId[^>]*r:id="{r_id}"[^>]*/>', '', pres_xml)
RemoveSldId(pres, r_id) == SelectSeq(pres, LAMBDA k : ~(k.t = "sldId" /\ k.rid = r_id))

\* what dom.toxml() writes for the slide list once _condense_xml has removed
\* the whitespace-only text nodes: an element left without children is
\* written self-closing
RECURSIVE CollapseEmpty(_)
CollapseEmpty(pres) ==
    IF Len(pres) < 2 THEN pres
    ELSE IF pres[1].t = "open" /\ pres[2].t = "close"
         THEN <<Tok("empty")>> \o CollapseEmpty(SubSeq(pres, 3, Len(pres)))
         ELSE <<pres[1]>> \o CollapseEmpty(Tail(pres))

\* _condense_xml on presentation.xml: a part that does not parse is left as
\* it is
CondenseXml(pres) == IF WellFormed(pres) THEN CollapseEmpty(pres) ELSE pres

\* _pretty_print_xml on presentation.xml as pack wrote it (no whitespace
\* between tags): toprettyxml keeps the elements and their order, adds
\* indentation and writes an element without children self-closing; a part
\* that does not parse is left as it is
PrettyPrintXml(pres) == IF WellFormed(pres) THEN CollapseEmpty(pres) ELSE pres

(***************************************************************************)
(* Validation (pptx_validate.py).  The package under validation is a       *)
(* function from the paths of its XML parts to what the checks read in     *)
(* each part:                                                              *)
(*   wf    - whether the part parses as XML                                *)
(*   elems - its elements in document order, each with its tag name, what  *)
(*           its first child is (none, an element, a text node and         *)
(*           whether that text begins or ends with a space or tab) and     *)
(*           the value of its xml:space attribute ("" when absent)         *)
(*   viol  - the structural checks that find a violation in the part       *)
(*   log   - the error log of the schema validator for the part after      *)
(*           stripping: one entry per error, with its message and the      *)
(*           node of the document it is raised at                          *)
(***************************************************************************)
Tags == {"a:t", "dgm:t", "a:r"}

FirstChildren == {"none", "elem", "text", "lead", "trail"}

\* tagName.endswith(":t")
EndsColonT(tag) == tag \in {"a:t", "dgm:t"}

\* text.startswith((" ", "\t")): the first child is a text node that
\* begins with a space or tab
StartsWithSpace(first) == first = "lead"

\* elem.firstChild and text and (text.startswith((" ", "\t")) or
\* text.endswith((" ", "\t")))
HasEdgeSpace(first) == first \in {"lead", "trail"}

NeedsPreserve(e) == EndsColonT(e.tag) /\ HasEdgeSpace(e.first) /\ e.space # "preserve"

RepairElem(e) == IF NeedsPreserve(e) THEN [e EXCEPT !.space = "preserve"] ELSE e

\* one file of _repair_whitespace: a part minidom cannot parse is skipped
RepairPart(p) ==
    IF p.wf THEN [p EXCEPT !.elems = [i \in DOMAIN p.elems |-> RepairElem(p.elems[i])]]
    ELSE p

RepairsIn(p) ==
    IF p.wf THEN Cardinality({i \in DOMAIN p.elems : NeedsPreserve(p.elems[i])}) ELSE 0

RECURSIVE SumRepairs(_, _)
SumRepairs(parts, todo) ==
    IF todo = {} THEN 0
    ELSE LET f == CHOOSE g \in todo : TRUE
         IN RepairsIn(parts[f]) + SumRepairs(parts, todo \ {f})

\* _repair_whitespace: the parts after the repair and the number of flags set
RepairWhitespace(parts) ==
    [parts |-> [f \in DOMAIN parts |-> RepairPart(parts[f])],
     repairs |-> SumRepairs(parts, DOMAIN parts)]

\* _check_wellformed_xml reporting the first unparsable part only
FirstMalformed(parts) ==
    LET bad == {f \in DOMAIN parts : ~parts[f].wf}
    IN IF bad = {} THEN {}
       ELSE {[check |-> "wellformed", part |-> CHOOSE f \in bad : TRUE]}

\* _check_wellformed_xml: one error for every part that does not parse
CheckWellformedXml(parts) ==
    {[check |-> "wellformed", part |-> f] : f \in {g \in DOMAIN parts : ~parts[g].wf}}

\* the structural checks 2-8 of validate_pptx, in the order they run
StructuralChecks ==
    <<"namespaces", "unique_ids", "file_references", "content_types",
      "slide_layout_ids", "no_duplicate_layouts", "notes_slides">>

\* the errors of the checks 2-8; every one of them reads parsed parts only
\* and passes over a part that does not parse
CheckStructure(parts) ==
    UNION {{[check |-> c, part |-> f] : c \in parts[f].viol} :
              f \in {g \in DOMAIN parts : parts[g].wf}}

\* IGNORED_XSD_ERRORS: the messages that contain one of the patterns
IgnoredXsdErrors == {"xml:space"}

\* _get_schema_path: the schema of a part, "" for none
GetSchemaPath(f) ==
    IF f = ContentTypesPart THEN "opc-contentTypes.xsd"
    ELSE IF f.r THEN "opc-relationships.xsd"
    ELSE IF f.d = "charts" THEN "dml-chart.xsd"
    ELSE IF f.d = "theme" THEN "dml-main.xsd"
    ELSE IF f.d \in {"ppt", "slides", "slideLayouts", "slideMasters", "notesSlides"}
         THEN "pml.xsd"
    ELSE ""

\* the schemas/ directory _find_schemas_dir looks for
SchemasDir == [d |-> "schemas", n |-> 0, r |-> FALSE]

\* _find_schemas_dir succeeds
SchemasDirFound(schemas) == schemas.dir

\* _validate_one_file_xsd: <<>> (None) when the schema cannot be loaded,
\* else <<the set of error messages>>; a part that does not parse gives the
\* message of the exception
ValidateOneFileXsd(p, schema, schemas) ==
    IF schema \in schemas.broken THEN <<>>
    ELSE IF ~p.wf THEN <<{"parse"}>>
    ELSE <<{e.msg : e \in p.log}>>

\* current_errors - original_errors
NewErrors(current, original) == current \ original

\* the errors _check_xsd reports for one part, {} when it reports none
XsdErrorsOf(f, parts, baseline, schemas) ==
    LET schema == GetSchemaPath(f)
        cur    == ValidateOneFileXsd(parts[f], schema, schemas)
        orig   == IF baseline # <<>> /\ f \in DOMAIN baseline[1]
                  THEN ValidateOneFileXsd(baseline[1][f], schema, schemas)
                  ELSE <<>>
    IN IF schema = "" \/ cur = <<>> \/ cur = <<{}>> THEN {}
       ELSE NewErrors(cur[1], IF orig = <<>> THEN {} ELSE orig[1]) \ IgnoredXsdErrors

\* _check_xsd: one entry per part with errors left, carrying their number
\* and the messages; without a schemas directory the single entry that says
\* so
CheckXsd(parts, baseline, schemas) ==
    IF ~SchemasDirFound(schemas) THEN {[part |-> SchemasDir, n |-> 0, msgs |-> {}]}
    ELSE {[part |-> f, n |-> Cardinality(XsdErrorsOf(f, parts, baseline, schemas)),
           msgs |-> XsdErrorsOf(f, parts, baseline, schemas)] :
            f \in {g \in DOMAIN parts : XsdErrorsOf(g, parts, baseline, schemas) # {}}}

\* "valid" computed from the structural errors alone
ValidStructureOnly(errors, xsd_errors) == errors = {}

\* "valid": len(errors) == 0 and len(xsd_errors) == 0
Valid(errors, xsd_errors) == errors = {} /\ xsd_errors = {}

\* the return value of validate_pptx
ValidationResult(valid, repairs, errors, xsd_errors) ==
    [valid |-> valid, repairs |-> repairs, errors |-> errors, xsd_errors |-> xsd_errors]

\* validate_pptx after the repair when every part is checked whether or not
\* some part does not parse
ValidateAllParts(parts, repairs, baseline, schemas) ==
    LET errors     == CheckWellformedXml(parts) \cup CheckStructure(parts)
        xsd_errors == CheckXsd(parts, baseline, schemas)
    IN [result |-> ValidationResult(Valid(errors, xsd_errors), repairs, errors, xsd_errors),
        phases |-> <<"repair", "wellformed", "structural", "schema">>]

\* validate_pptx after the repair: the well-formedness check, and only when
\* it finds nothing the checks 2-8 and the schema check; phases lists the
\* phases that ran
ValidateRepaired(parts, repairs, baseline, schemas) ==
    LET xml_errors == CheckWellformedXml(parts)
        errors     == CheckStructure(parts)
        xsd_errors == CheckXsd(parts, baseline, schemas)
    IN IF xml_errors # {}
       THEN [result |-> ValidationResult(FALSE, repairs, xml_errors, {}),
             phases |-> <<"repair", "wellformed">>]
       ELSE [result |-> ValidationResult(Valid(errors, xsd_errors), repairs, errors,
                                         xsd_errors),
             phases |-> <<"repair", "wellformed", "structural", "schema">>]

\* validate_pptx: the parts as the repair leaves them, the result and the
\* phases that ran
ValidatePptx(parts, baseline, schemas) ==
    LET rep == RepairWhitespace(parts)
        out == ValidateRepaired(rep.parts, rep.repairs, baseline, schemas)
    IN [parts |-> rep.parts, result |-> out.result, phases |-> out.phases]

(***************************************************************************)
(* Two of the structural checks on the relationships of the directory.  A  *)
(* Target with a scheme ("http://...", "file:///...", "mailto:...") is a   *)
(* relationship whose `to` has the scheme as its directory.                *)
(***************************************************************************)
Schemes == {"http:", "https:", "mailto:", "file:", "ftp:"}

ExternalTarget(scheme) == [d |-> scheme, n |-> 0, r |-> FALSE]

\* "slideLayout" in rel.get("Type", "")
TypeContainsSlideLayout(type) == type = "slideLayout"

\* layout_count of one relationships file
LayoutCount(relset) == Cardinality({x \in relset : TypeContainsSlideLayout(x.type)})

\* layout_count > 1
DuplicateLayouts(layout_count) == layout_count > 1

\* _check_no_duplicate_layouts: one error per ppt/slides/_rels/*.xml.rels
\* that fails the test, with the count
CheckNoDuplicateLayouts(files, rels) ==
    {[part |-> rf, layout_count |-> LayoutCount(rels[rf])] :
        rf \in {f \in DOMAIN rels \cap files :
                  f.r /\ f.d = "slides" /\ DuplicateLayouts(LayoutCount(rels[f]))}}

\* not target or target.startswith(("http", "mailto:"))
SkippedTarget(rel) == rel.to.d \in {"http:", "https:", "mailto:"}

\* target_path.resolve().exists(): a root-relative target is joined to the
\* base, any other to the directory of the owning part; a target with
\* another scheme is joined like a relative path and names no file
TargetExists(rel, files) == rel.to \in files

\* _check_file_references: one error per relationship that is not skipped
\* and whose target does not exist
CheckFileReferences(files, rels, presRels) ==
    LET broken(relset) == {y \in relset : ~SkippedTarget(y) /\ ~TargetExists(y, files)}
    IN  UNION {{[part |-> rf, rel |-> x] : x \in broken(rels[rf])} :
                  rf \in DOMAIN rels \cap files}
            \cup {[part |-> PresRelsPart, rel |-> x] : x \in broken(Range(presRels))}

(***************************************************************************)
(* The content of one XML part, for the normaliser.  As minidom parses it  *)
(* the part is a tree of nodes [k, tag, v, kids]: an element with its tag  *)
(* name and child nodes, a text node with its characters v, or a comment.  *)
(* Characters are "x" (a character that is no whitespace), "s" (a space)   *)
(* and "n" (a newline); one "s" stands for one level of indentation.       *)
(* Adjacent text nodes are one node once the part is written and read      *)
(* again, which MergeText does.                                            *)
(***************************************************************************)
Text(v) == [k |-> "text", tag |-> "", v |-> v, kids |-> <<>>]

Comment == [k |-> "comment", tag |-> "", v |-> <<>>, kids |-> <<>>]

Element(tag, kids) == [k |-> "elem", tag |-> tag, v |-> <<>>, kids |-> kids]

RECURSIVE MergeText(_)
MergeText(kids) ==
    IF kids = <<>> THEN <<>>
    ELSE IF Head(kids).k = "text" /\ Head(kids).v = <<>> THEN MergeText(Tail(kids))
    ELSE IF Len(kids) >= 2 /\ Head(kids).k = "text" /\ kids[2].k = "text"
         THEN MergeText(<<Text(Head(kids).v \o kids[2].v)>> \o Tail(Tail(kids)))
    ELSE <<Head(kids)>> \o MergeText(Tail(kids))

\* child.nodeValue and child.nodeValue.strip() == ""
IsBlank(v) == v # <<>> /\ \A i \in 1..Len(v) : v[i] \in {"s", "n"}

\* the test of _condense_xml on one child node of an element it strips
Removable(node) == (node.k = "text" /\ IsBlank(node.v)) \/ node.k = "comment"

\* _condense_xml on one node: getElementsByTagName("*") visits every
\* element; the children of an element whose tag name ends in ":t" are
\* kept, the whitespace-only text nodes and comments of any other element
\* are removed
RECURSIVE CondenseNode(_)
CondenseNode(node) ==
    IF node.k # "elem" THEN node
    ELSE LET keep == IF EndsColonT(node.tag) THEN node.kids
                     ELSE SelectSeq(node.kids, LAMBDA c : ~Removable(c))
         IN  Element(node.tag, MergeText([i \in 1..Len(keep) |-> CondenseNode(keep[i])]))

\* indent: one level of indentation per depth
RECURSIVE Indent(_)
Indent(depth) == IF depth = 0 THEN <<>> ELSE <<"s">> \o Indent(depth - 1)

\* Element.writexml of toprettyxml, read again: an element without
\* children or with a single text child is written on one line; any other
\* element gets a newline after its start tag, every child on a line of
\* its own (indent + child + newline, a text child too) and the indent
\* before its end tag
RECURSIVE PrettyNode(_, _)
PrettyNode(node, depth) ==
    IF node.k # "elem" THEN node
    ELSE IF node.kids = <<>> \/ (Len(node.kids) = 1 /\ node.kids[1].k = "text") THEN node
    ELSE LET line(c) == <<Text(Indent(depth + 1)), PrettyNode(c, depth + 1), Text(<<"n">>)>>
             lines == [i \in 1..Len(node.kids) |-> line(node.kids[i])]
         IN  Element(node.tag,
                     MergeText(<<Text(<<"n">>)>> \o Join(lines) \o <<Text(Indent(depth))>>))

\* _condense_xml on a part that parses
CondenseTree(doc) == CondenseNode(doc)

\* _pretty_print_xml on a part that parses
PrettyPrintTree(doc) == PrettyNode(doc, 0)

(***************************************************************************)
(* The text of a file as _escape_smart_quotes and _restore_smart_quotes    *)
(* see it: a sequence of pieces, each one of the four smart quotes, one of *)
(* the four character references written out ("&#x201C;" ...), or some     *)
(* other character.                                                        *)
(***************************************************************************)
SMART_QUOTE_REPLACEMENTS ==
    [c \in {"u201c", "u201d", "u2018", "u2019"} |->
        CASE c = "u201c" -> "&#x201C;"
          [] c = "u201d" -> "&#x201D;"
          [] c = "u2018" -> "&#x2018;"
          [] c = "u2019" -> "&#x2019;"]

SMART_QUOTE_RESTORE ==
    [e \in {SMART_QUOTE_REPLACEMENTS[c] : c \in DOMAIN SMART_QUOTE_REPLACEMENTS} |->
        CHOOSE c \in DOMAIN SMART_QUOTE_REPLACEMENTS : SMART_QUOTE_REPLACEMENTS[c] = e]

\* content.replace(char, entity) for every pair
EscapeSmartQuotes(content) ==
    [i \in 1..Len(content) |->
        IF content[i] \in DOMAIN SMART_QUOTE_REPLACEMENTS
        THEN SMART_QUOTE_REPLACEMENTS[content[i]] ELSE content[i]]

\* content.replace(entity, char) for every pair
RestoreSmartQuotes(content) ==
    [i \in 1..Len(content) |->
        IF content[i] \in DOMAIN SMART_QUOTE_RESTORE
        THEN SMART_QUOTE_RESTORE[content[i]] ELSE content[i]]

(***************************************************************************)
(* State: the unpacked directory of one editing session.                   *)
(***************************************************************************)
VARIABLES
    files,      \* the paths present in the unpacked directory
    rels,       \* rels file (other than presentation.xml.rels) -> its relationships
    bytes,      \* part that is no rels file -> the content it holds
    pres,       \* ppt/presentation.xml, as its tag sequence
    presRels,   \* ppt/_rels/presentation.xml.rels, in document order
    manifest,   \* the parts [Content_Types].xml has an Override for
    pending,    \* results returned by duplicate_slide and not yet inserted
    archive,    \* the package last written by pack: <<>> or <<tree>>
    ops,        \* the number of calls made so far
    plan,       \* the caller's plan of one edit, <<>> when calls come freely
    last,       \* the last call: operation, arguments, result, tree before it
    xmlParts,   \* the XML parts of the directory given to validate_pptx
    env,        \* what validate_pptx is called with besides: baseline, schemas
    report,     \* the last call of the validation module and what it returned
    doc,        \* one XML part handed to the normaliser, as minidom parses it
    raw,        \* one file handed to the smart-quote mappings, as its text
    norm,       \* the last call of the normaliser and the content before it
    inv,        \* the engine invocations in progress, each with its position
    disk        \* the directories on disk: name -> content

vars == <<files, rels, bytes, pres, presRels, manifest, pending, archive, ops, plan, last,
          xmlParts, env, report, doc, raw, norm, inv, disk>>

Tree == [files |-> files, rels |-> rels, bytes |-> bytes, pres |-> pres,
         presRels |-> presRels, manifest |-> manifest]

\* no call of the validation module yet
NoReport ==
    [op |-> "none", pre |-> <<>>, repairs |-> 0, result |-> ValidationResult(TRUE, 0, {}, {}),
     phases |-> <<>>, prevOp |-> "none", prevRepairs |-> 0]

\* an editing session that does not validate
NotValidated ==
    /\ xmlParts = <<>>
    /\ env = [baseline |-> <<>>, schemas |-> [dir |-> TRUE, broken |-> {}]]
    /\ report = NoReport

\* no part handed to the normaliser
NoDoc == Element("", <<>>)

\* no call of the normaliser yet
NoNorm == [op |-> "none", pre |-> <<>>, prevOp |-> "none", prevPre |-> <<>>, pprevOp |-> "none"]

\* an editing session seen without the normaliser
NotNormalising == doc = NoDoc /\ raw = <<>> /\ norm = NoNorm

\* a single invocation, working in its own directory only
NotConcurrent == inv = <<>> /\ disk = <<>>

Call(op, arg, pos, err, ret, removed, passes) ==
    [op |-> op, arg |-> arg, pos |-> pos, err |-> err, ret |-> ret, removed |-> removed,
     passes |-> passes, pre |-> Tree, prevOp |-> last.op, prevArg |-> last.arg,
     prevErr |-> last.err, prevRet |-> last.ret, prevRemoved |-> last.removed]

(***************************************************************************)
(* Initial packages: what unpack leaves for an uploaded presentation with  *)
(* 0 .. InitSlides slide parts, of which any subset is in the slide list.  *)
(***************************************************************************)
Layout1 == Part("slideLayouts", 1)

Master1 == Part("slideMasters", 1)

Theme1 == Part("theme", 1)

Theme2 == Part("theme", 2)

Chart1 == Part("charts", 1)

Embed1 == Part("embeddings", 1)

Media1 == Part("media", 1)

Media2 == Part("media", 2)

Notes1 == Part("notesSlides", 1)

Scenarios == {"plain", "chart", "layoutchart", "media", "absmedia", "theme", "notes"}

Danglings == {"none", "override", "rel", "both"}

\* how presentation.xml.rels writes the Target of slide 1: relative to ppt/
\* ("slides/slide1.xml") or root-relative ("/ppt/slides/slide1.xml")
TargetForms == {"relative", "rooted"}

\* the relationship ids of an initial presentation.xml.rels: rId1 is the
\* slide master, rId2 the theme, rId3 .. the slides
SlideRid(n) == 2 + n

\* the resource parts of a scenario, rels files included
ScenarioFiles(sc) ==
    CASE sc = "chart" -> {Chart1, RelsFile(Chart1), Embed1}
      [] sc = "layoutchart" -> {Chart1, RelsFile(Chart1), Embed1}
      [] sc = "media" -> {Media1}
      [] sc = "absmedia" -> {Media1}
      [] sc = "theme" -> {Theme2, RelsFile(Theme2), Media2, TrashFile}
      [] sc = "notes" -> {Notes1, RelsFile(Notes1), Media1}
      [] OTHER -> {}

\* what slide 1 points to besides its layout
SlideExtras(sc) ==
    CASE sc = "chart" -> {Rel("chart", FALSE, Chart1)}
      [] sc = "media" -> {Rel("image", FALSE, Media1)}
      [] sc = "absmedia" -> {Rel("image", TRUE, Media1)}
      [] sc = "notes" -> {Rel("notesSlide", FALSE, Notes1)}
      [] OTHER -> {}

InitRels(sc, nS) ==
    LET fixed == {RelsFile(Layout1), RelsFile(Master1)}
        slideRels == {RelsFile(SlidePart(n)) : n \in 1..nS}
        resRels == {f \in ScenarioFiles(sc) : f.r}
    IN  [rf \in fixed \cup slideRels \cup resRels |->
            CASE rf = RelsFile(Layout1) ->
                    {Rel("slideMaster", FALSE, Master1)}
                        \cup (IF sc = "layoutchart"
                              THEN {Rel("chart", FALSE, Chart1)} ELSE {})
              [] rf = RelsFile(Master1) ->
                    {Rel("slideLayout", FALSE, Layout1), Rel("theme", FALSE, Theme1)}
              [] rf = RelsFile(Chart1) -> {Rel("package", FALSE, Embed1)}
              [] rf = RelsFile(Theme2) -> {Rel("image", FALSE, Media2)}
              [] rf = RelsFile(Notes1) ->
                    {Rel("slide", FALSE, SlidePart(1)), Rel("image", FALSE, Media1)}
              [] OTHER ->
                    {Rel("slideLayout", FALSE, Layout1)}
                        \cup (IF rf = RelsFile(SlidePart(1)) THEN SlideExtras(sc) ELSE {})]

\* the slide list of slides `listed`, in ascending order; an empty list is
\* written <p:sldIdLst/> or as an opening and a closing tag
RECURSIVE SldIdsOf(_, _, _)
SldIdsOf(listed, n, nS) ==
    IF n > nS THEN <<>>
    ELSE (IF n \in listed THEN <<SldId(FloorSldId + n - 1, SlideRid(n))>> ELSE <<>>)
         \o SldIdsOf(listed, n + 1, nS)

InitPres(listed, nS, selfClosed) ==
    <<Tok("head")>>
    \o (IF listed = {} /\ selfClosed THEN <<Tok("empty")>>
        ELSE <<Tok("open")>> \o SldIdsOf(listed, 1, nS) \o <<Tok("close")>>)
    \o <<Tok("tail")>>

InitPresRels(nS, dg, tf) ==
    <<PresRel(1, "slideMaster", Master1), PresRel(2, "theme", Theme1)>>
    \o [n \in 1..nS |->
            [PresRel(SlideRid(n), "slide", SlidePart(n))
                EXCEPT !.abs = (n = 1 /\ tf = "rooted")]]
    \o (IF dg \in {"rel", "both"}
        THEN <<PresRel(SlideRid(nS + 1), "slide", SlidePart(nS + 1))>> ELSE <<>>)

InitFiles(sc, nS) ==
    {PresentationPart, PresRelsPart, ContentTypesPart,
     Layout1, RelsFile(Layout1), Master1, RelsFile(Master1), Theme1}
    \cup {SlidePart(n) : n \in 1..nS} \cup {RelsFile(SlidePart(n)) : n \in 1..nS}
    \cup ScenarioFiles(sc)

\* Override entries: the XML parts; media and embeddings are typed by the
\* Default entries of their extension
InitManifest(sc, nS, dg) ==
    {f \in InitFiles(sc, nS) :
        ~f.r /\ f.d \notin {"root", "media", "embeddings", "[trash]"}}
    \cup (IF dg \in {"override", "both"} THEN {SlidePart(nS + 1)} ELSE {})

\* the parts whose content is held in bytes
HasBytes(f) == ~f.r /\ f.d \notin {"ppt", "root"}

FirstCall(tree) ==
    [op |-> "unpack", arg |-> 0, pos |-> NoPos, err |-> "", ret |-> NoResult,
     removed |-> {}, passes |-> 0, pre |-> tree, prevOp |-> "none", prevArg |-> 0,
     prevErr |-> "", prevRet |-> NoResult, prevRemoved |-> {}]

Init ==
    \E nS \in 0..InitSlides, sc \in Scenarios, dg \in Danglings, selfClosed \in BOOLEAN :
    \E listed \in SUBSET (1..nS), tf \in TargetForms :
        /\ sc \notin {"plain", "theme"} => nS >= 1 /\ listed = 1..nS
        /\ dg # "none" => sc = "plain" /\ listed = 1..nS
        /\ tf = "rooted" => sc = "plain" /\ dg = "none" /\ nS >= 1 /\ listed = 1..nS
        /\ selfClosed => listed = {}
        /\ files = InitFiles(sc, nS)
        /\ rels = InitRels(sc, nS)
        /\ bytes = [f \in {g \in InitFiles(sc, nS) : HasBytes(g)} |-> f.n]
        /\ pres = InitPres(listed, nS, selfClosed)
        /\ presRels = InitPresRels(nS, dg, tf)
        /\ manifest = InitManifest(sc, nS, dg)
        /\ pending = {}
        /\ archive = <<>>
        /\ ops = 0
        /\ plan = <<>>
        /\ NotValidated
        /\ NotNormalising
        /\ NotConcurrent
        /\ last = FirstCall([files |-> InitFiles(sc, nS),
                              rels |-> InitRels(sc, nS),
                              bytes |-> [f \in {g \in InitFiles(sc, nS) : HasBytes(g)} |-> f.n],
                              pres |-> InitPres(listed, nS, selfClosed),
                              presRels |-> InitPresRels(nS, dg, tf),
                              manifest |-> InitManifest(sc, nS, dg)])

(***************************************************************************)
(* The operations.                                                         *)
(***************************************************************************)
Positions == (0..MaxPos) \cup {FarPos, NoPos}

\* duplicate_slide(unpacked_dir, "slide<n>.xml")
Duplicate(n) ==
    \E d \in {DuplicateSlide(files, rels, bytes, pres, presRels, manifest, SlidePart(n))} :
        /\ files' = d.files
        /\ rels' = d.rels
        /\ bytes' = d.bytes
        /\ manifest' = d.manifest
        /\ presRels' = d.presRels
        /\ pres' = d.pres
        /\ pending' = IF d.err # "" THEN pending ELSE pending \cup {d.ret}
        /\ last' = Call("duplicate", n, NoPos, d.err, d.ret, {}, 0)
        /\ UNCHANGED archive

\* add_slide_to_presentation(unpacked_dir, new_sld_id, new_r_id, position)
\* with the identifiers of an earlier duplicate_slide
Insert(res, position) ==
    /\ res \in pending
    /\ pres' = AddSlideToPresentation(pres, res.new_sld_id, res.new_r_id, position)
    /\ pending' = pending \ {res}
    /\ last' = Call("insert", res.new_filename, position, "", res, {}, 0)
    /\ UNCHANGED <<files, rels, bytes, presRels, manifest, archive>>

\* phase 2c of apply_xml_modifications for "slide<n>.xml"
RemoveSlide(n) ==
    \E r_id \in {RIdMatch(presRels, SlidePart(n))} :
        /\ pres' = IF r_id # 0 THEN RemoveSldId(pres, r_id) ELSE pres
        /\ last' = Call("remove", n, NoPos, IF r_id # 0 THEN "" ELSE "not found", NoResult, {}, 0)
        /\ UNCHANGED <<files, rels, bytes, presRels, manifest, pending, archive>>

\* clean(unpacked_dir)
Clean ==
    \E c \in {CleanResult(files, rels, pres, presRels, manifest)} :
        /\ files' = c.files
        /\ rels' = c.rels
        /\ bytes' = Restrict(bytes, DOMAIN bytes \ c.removed)
        /\ presRels' = c.presRels
        /\ manifest' = c.manifest
        /\ last' = Call("clean", 0, NoPos, "", NoResult, c.removed, c.passes)
        /\ UNCHANGED <<pres, pending, archive>>

\* repack_pptx(unpacked_dir): clean, then pack condenses a copy of the tree
\* and zips it
Repack ==
    \E c \in {CleanResult(files, rels, pres, presRels, manifest)} :
        /\ files' = c.files
        /\ rels' = c.rels
        /\ bytes' = Restrict(bytes, DOMAIN bytes \ c.removed)
        /\ presRels' = c.presRels
        /\ manifest' = c.manifest
        /\ archive' = <<[files |-> c.files, rels |-> c.rels,
                         bytes |-> Restrict(bytes, DOMAIN bytes \ c.removed),
                         pres |-> CondenseXml(pres),
                         presRels |-> c.presRels, manifest |-> c.manifest]>>
        /\ last' = Call("repack", 0, NoPos, "", NoResult, c.removed, c.passes)
        /\ UNCHANGED <<pres, pending>>

\* unpack(pptx_bytes, output_dir) of the package last written, into a fresh
\* directory
Unpack ==
    /\ archive # <<>>
    /\ files' = archive[1].files
    /\ rels' = archive[1].rels
    /\ bytes' = archive[1].bytes
    /\ pres' = PrettyPrintXml(archive[1].pres)
    /\ presRels' = archive[1].presRels
    /\ manifest' = archive[1].manifest
    /\ pending' = {}
    /\ archive' = <<>>
    /\ last' = Call("unpack", 0, NoPos, "", NoResult, {}, 0)

\* one more call; the caller works on one unpacked directory until
\* repack_pptx has written the package, and the directory is discarded then
Tick == ops < MaxOps /\ ops' = ops + 1 /\ UNCHANGED <<plan, xmlParts, env, report, doc, raw, norm, inv, disk>>

InSession == archive = <<>> /\ Tick

Next ==
    \/ \E n \in 1..(InitSlides + 1) : InSession /\ Duplicate(n)
    \/ \E res \in pending, position \in Positions : InSession /\ Insert(res, position)
    \/ \E n \in 1..(InitSlides + 1) : InSession /\ RemoveSlide(n)
    \/ InSession /\ Clean
    \/ InSession /\ Repack
    \/ Tick /\ Unpack

Spec == Init /\ [][Next]_vars

(***************************************************************************)
(* One planned edit from unpack to the re-unpacked result, as edit_pptx    *)
(* runs it for a plan that adds one slide: duplicate_slide of              *)
(* plan.source, add_slide_to_presentation at plan.position, clean,         *)
(* repack_pptx, and unpack of the package written.  The package is         *)
(* consistent: plan.n slides, all of them in the slide list, no dangling   *)
(* entry.                                                                  *)
(***************************************************************************)
InitE2E ==
    \E n \in 1..E2ESlides, sc \in {"plain", "media", "chart"} :
    \E source \in 1..n, position \in 1..(n + 1) :
        /\ files = InitFiles(sc, n)
        /\ rels = InitRels(sc, n)
        /\ bytes = [f \in {g \in InitFiles(sc, n) : HasBytes(g)} |-> f.n]
        /\ pres = InitPres(1..n, n, FALSE)
        /\ presRels = InitPresRels(n, "none", "relative")
        /\ manifest = InitManifest(sc, n, "none")
        /\ pending = {}
        /\ archive = <<>>
        /\ ops = 0
        /\ plan = <<[n |-> n, source |-> source, position |-> position]>>
        /\ NotValidated
        /\ NotNormalising
        /\ NotConcurrent
        /\ last = FirstCall([files |-> InitFiles(sc, n),
                              rels |-> InitRels(sc, n),
                              bytes |-> [f \in {g \in InitFiles(sc, n) : HasBytes(g)} |-> f.n],
                              pres |-> InitPres(1..n, n, FALSE),
                              presRels |-> InitPresRels(n, "none", "relative"),
                              manifest |-> InitManifest(sc, n, "none")])

Stage(k) == ops = k /\ ops' = k + 1 /\ UNCHANGED <<plan, xmlParts, env, report, doc, raw, norm, inv, disk>>

NextE2E ==
    \/ Stage(0) /\ Duplicate(plan[1].source)
    \/ \E res \in pending : Stage(1) /\ Insert(res, plan[1].position)
    \/ Stage(2) /\ Clean
    \/ Stage(3) /\ Repack
    \/ Stage(4) /\ Unpack

SpecE2E == InitE2E /\ [][NextE2E]_vars

(***************************************************************************)
(* Calls of the validation module on one unpacked directory:               *)
(* _repair_whitespace and validate_pptx, in any order, MaxChecks calls at  *)
(* most.  The directory holds two slides, a theme and a custom XML part;   *)
(* viol is what the structural checks find in each of the two slides; the  *)
(* baseline, when one is given, is the package before the edit.            *)
(***************************************************************************)
MaxElems == 2

MaxChecks == 2

CustomXml1 == Part("customXml", 1)

Elem(tag, first, space) == [tag |-> tag, first |-> first, space |-> space]

ElemChoices ==
    {Elem("a:t", "lead", ""), Elem("a:t", "trail", ""), Elem("a:t", "trail", "default"),
     Elem("a:t", "lead", "preserve"), Elem("a:t", "text", ""), Elem("a:t", "none", ""),
     Elem("dgm:t", "lead", ""), Elem("a:r", "elem", ""), Elem("a:r", "lead", "")}

SeqsUpTo(S, n) == UNION {[1..k -> S] : k \in 0..n}

XsdError(msg, node) == [msg |-> msg, node |-> node]

LogEntries ==
    {XsdError("m1", 1), XsdError("m1", 2), XsdError("m2", 1), XsdError("xml:space", 1)}

XmlPart(wf, elems, viol, log) == [wf |-> wf, elems |-> elems, viol |-> viol, log |-> log]

\* the baselines: none, or the package before the edit with slide1.xml
\* absent or holding some of the errors
Baselines ==
    {<<>>}
    \cup {<<[f \in {SlidePart(2), Theme1, CustomXml1} |-> XmlPart(TRUE, <<>>, {}, {})]>>}
    \cup {<<[f \in {SlidePart(1), SlidePart(2), Theme1, CustomXml1} |->
               XmlPart(TRUE, <<>>, {}, IF f = SlidePart(1) THEN log ELSE {})]>> :
             log \in SUBSET {XsdError("m1", 1), XsdError("m2", 1)}}

SchemaStates ==
    {[dir |-> TRUE, broken |-> {}], [dir |-> FALSE, broken |-> {}],
     [dir |-> TRUE, broken |-> {"pml.xsd"}], [dir |-> TRUE, broken |-> {"dml-main.xsd"}]}

InitV ==
    \E elems1 \in SeqsUpTo(ElemChoices, MaxElems), wf1 \in BOOLEAN, wf2 \in BOOLEAN :
    \E viol \in {{}, {StructuralChecks[2]}}, log1 \in SUBSET LogEntries :
    \E log2 \in {{}, {XsdError("m2", 1)}}, themeErr \in BOOLEAN :
    \E baseline \in Baselines, schemas \in SchemaStates :
        /\ elems1 \notin {<<>>, <<Elem("a:t", "lead", "")>>} =>
               /\ log1 = {} /\ log2 = {} /\ viol = {} /\ ~themeErr
               /\ baseline = <<>> /\ schemas = [dir |-> TRUE, broken |-> {}]
        /\ ~wf1 => log1 = {} /\ baseline = <<>>
        /\ themeErr => log1 = {} /\ log2 = {} /\ baseline = <<>>
        /\ schemas # [dir |-> TRUE, broken |-> {}] =>
               baseline = <<>> /\ log1 \in {{}, {XsdError("m1", 1)}}
        /\ xmlParts = [f \in {SlidePart(1), SlidePart(2), Theme1, CustomXml1} |->
                          IF f = SlidePart(1) THEN XmlPart(wf1, elems1, viol, log1)
                          ELSE IF f = SlidePart(2) THEN XmlPart(wf2, <<>>, viol, log2)
                          ELSE IF f = Theme1
                               THEN XmlPart(TRUE, <<>>, {},
                                            IF themeErr THEN {XsdError("m2", 1)} ELSE {})
                          ELSE XmlPart(TRUE, <<>>, {}, {XsdError("m1", 1)})]
        /\ env = [baseline |-> baseline, schemas |-> schemas]
        /\ report = NoReport
        /\ NotNormalising
        /\ NotConcurrent
        /\ files = InitFiles("plain", 1)
        /\ rels = InitRels("plain", 1)
        /\ bytes = [f \in {g \in InitFiles("plain", 1) : HasBytes(g)} |-> f.n]
        /\ pres = InitPres({1}, 1, FALSE)
        /\ presRels = InitPresRels(1, "none", "relative")
        /\ manifest = InitManifest("plain", 1, "none")
        /\ pending = {}
        /\ archive = <<>>
        /\ ops = 0
        /\ plan = <<>>
        /\ last = FirstCall([files |-> InitFiles("plain", 1),
                              rels |-> InitRels("plain", 1),
                              bytes |-> [f \in {g \in InitFiles("plain", 1) : HasBytes(g)} |-> f.n],
                              pres |-> InitPres({1}, 1, FALSE),
                              presRels |-> InitPresRels(1, "none", "relative"),
                              manifest |-> InitManifest("plain", 1, "none")])

\* one more call of the validation module; the editing operations are not
\* called meanwhile
Checking ==
    /\ ops < MaxChecks
    /\ ops' = ops + 1
    /\ UNCHANGED <<files, rels, bytes, pres, presRels, manifest, pending, archive, plan, last,
                   env, doc, raw, norm, inv, disk>>

\* _repair_whitespace(xml_files)
Repair ==
    \E d \in {RepairWhitespace(xmlParts)} :
        /\ xmlParts' = d.parts
        /\ report' = [op |-> "repair", pre |-> xmlParts, repairs |-> d.repairs,
                      result |-> NoReport.result, phases |-> <<"repair">>,
                      prevOp |-> report.op, prevRepairs |-> report.repairs]

\* validate_pptx(unpacked_dir, original_bytes)
Validate ==
    \E d \in {ValidatePptx(xmlParts, env.baseline, env.schemas)} :
        /\ xmlParts' = d.parts
        /\ report' = [op |-> "validate", pre |-> xmlParts, repairs |-> d.result.repairs,
                      result |-> d.result, phases |-> d.phases,
                      prevOp |-> report.op, prevRepairs |-> report.repairs]

NextV ==
    \/ Checking /\ Repair
    \/ Checking /\ Validate

SpecV == InitV /\ [][NextV]_vars

(***************************************************************************)
(* Calls of the two relationship checks on one unpacked directory: a       *)
(* package with one slide whose relationships file holds any of the        *)
(* relationships of SlideRelChoices; ppt/media/image1.png is there or not. *)
(***************************************************************************)
RelWithId(id, type, abs, to) == [Rel(type, abs, to) EXCEPT !.id = id]

SlideRelChoices ==
    {RelWithId(1, "slideLayout", FALSE, Layout1),
     RelWithId(2, "slideLayout", FALSE, Layout1),
     RelWithId(3, "image", FALSE, Media1),
     RelWithId(4, "image", TRUE, Media1),
     RelWithId(5, "hyperlink", FALSE, ExternalTarget("http:")),
     RelWithId(6, "hyperlink", FALSE, ExternalTarget("mailto:")),
     RelWithId(7, "hyperlink", FALSE, ExternalTarget("file:"))}

InitS ==
    \E relset \in SUBSET SlideRelChoices, media \in BOOLEAN :
        /\ files = InitFiles("plain", 1) \cup (IF media THEN {Media1} ELSE {})
        /\ rels = [InitRels("plain", 1) EXCEPT ![RelsFile(SlidePart(1))] = relset]
        /\ bytes = [f \in {g \in InitFiles("plain", 1) : HasBytes(g)} |-> f.n]
        /\ pres = InitPres({1}, 1, FALSE)
        /\ presRels = InitPresRels(1, "none", "relative")
        /\ manifest = InitManifest("plain", 1, "none")
        /\ pending = {}
        /\ archive = <<>>
        /\ ops = 0
        /\ plan = <<>>
        /\ NotValidated
        /\ NotNormalising
        /\ NotConcurrent
        /\ last = FirstCall([files |-> InitFiles("plain", 1)
                                          \cup (IF media THEN {Media1} ELSE {}),
                              rels |-> [InitRels("plain", 1)
                                           EXCEPT ![RelsFile(SlidePart(1))] = relset],
                              bytes |-> [f \in {g \in InitFiles("plain", 1) : HasBytes(g)} |-> f.n],
                              pres |-> InitPres({1}, 1, FALSE),
                              presRels |-> InitPresRels(1, "none", "relative"),
                              manifest |-> InitManifest("plain", 1, "none")])

\* _check_no_duplicate_layouts(path)
CheckLayouts ==
    /\ report' = [op |-> "check_no_duplicate_layouts",
                  errors |-> CheckNoDuplicateLayouts(files, rels), prevOp |-> report.op]
    /\ UNCHANGED xmlParts

\* _check_file_references(xml_files, path)
CheckReferences ==
    /\ report' = [op |-> "check_file_references",
                  errors |-> CheckFileReferences(files, rels, presRels),
                  prevOp |-> report.op]
    /\ UNCHANGED xmlParts

NextS ==
    \/ Checking /\ CheckLayouts
    \/ Checking /\ CheckReferences

SpecS == InitS /\ [][NextS]_vars

(***************************************************************************)
(* The normaliser on one file: _condense_xml and _pretty_print_xml on an   *)
(* XML part, _escape_smart_quotes and _restore_smart_quotes on the text of *)
(* a file, called in any order up to MaxSteps times.  The part is an       *)
(* element with up to MaxKids children, the text has up to MaxText pieces. *)
(***************************************************************************)
MaxSteps == 3

MaxKids == 2

MaxText == 2

\* the children a part starts with: text, whitespace, a comment, text runs
\* with and without a namespace prefix, and a run that mixes text and an
\* element
NodeChoices ==
    {Text(<<"x">>), Text(<<"s">>), Comment}
    \cup {Element(tag, kids) : tag \in {"a:t", "t"},
                               kids \in {<<Text(<<"s">>)>>, <<Text(<<"x">>)>>}}
    \cup {Element("a:r", <<Text(<<"x">>), Element("a:t", <<Text(<<"s">>)>>)>>)}

DocChoices == {Element("p:sp", kids) : kids \in SeqsUpTo(NodeChoices, MaxKids)}

RawChoices ==
    SeqsUpTo(DOMAIN SMART_QUOTE_REPLACEMENTS \cup DOMAIN SMART_QUOTE_RESTORE \cup {"a"},
             MaxText)

\* a plain package of one slide, nothing called yet
PlainSession ==
    /\ files = InitFiles("plain", 1)
    /\ rels = InitRels("plain", 1)
    /\ bytes = [f \in {g \in InitFiles("plain", 1) : HasBytes(g)} |-> f.n]
    /\ pres = InitPres({1}, 1, FALSE)
    /\ presRels = InitPresRels(1, "none", "relative")
    /\ manifest = InitManifest("plain", 1, "none")
    /\ pending = {}
    /\ archive = <<>>
    /\ ops = 0
    /\ plan = <<>>
    /\ last = FirstCall([files |-> InitFiles("plain", 1),
                          rels |-> InitRels("plain", 1),
                          bytes |-> [f \in {g \in InitFiles("plain", 1) : HasBytes(g)} |-> f.n],
                          pres |-> InitPres({1}, 1, FALSE),
                          presRels |-> InitPresRels(1, "none", "relative"),
                          manifest |-> InitManifest("plain", 1, "none")])
    /\ NotValidated

InitX ==
    /\ PlainSession
    /\ NotConcurrent
    /\ norm = NoNorm
    /\ \/ doc \in DocChoices /\ raw = <<>>
       \/ doc = NoDoc /\ raw \in RawChoices

\* one more call of the normaliser on the file
Normalising ==
    /\ ops < MaxSteps
    /\ ops' = ops + 1
    /\ UNCHANGED <<files, rels, bytes, pres, presRels, manifest, pending, archive, plan, last,
                   xmlParts, env, report, inv, disk>>

NormCall(op, pre) ==
    [op |-> op, pre |-> pre, prevOp |-> norm.op, prevPre |-> norm.pre, pprevOp |-> norm.prevOp]

\* _condense_xml(xml_file)
Condense ==
    /\ doc # NoDoc
    /\ doc' = CondenseTree(doc)
    /\ norm' = NormCall("condense", doc)
    /\ UNCHANGED raw

\* _pretty_print_xml(xml_file)
PrettyPrint ==
    /\ doc # NoDoc
    /\ doc' = PrettyPrintTree(doc)
    /\ norm' = NormCall("prettify", doc)
    /\ UNCHANGED raw

\* _escape_smart_quotes(file_path)
Escape ==
    /\ doc = NoDoc
    /\ raw' = EscapeSmartQuotes(raw)
    /\ norm' = NormCall("escape", raw)
    /\ UNCHANGED doc

\* _restore_smart_quotes(file_path)
Restore ==
    /\ doc = NoDoc
    /\ raw' = RestoreSmartQuotes(raw)
    /\ norm' = NormCall("restore", raw)
    /\ UNCHANGED doc

NextX ==
    \/ Normalising /\ Condense
    \/ Normalising /\ PrettyPrint
    \/ Normalising /\ Escape
    \/ Normalising /\ Restore

SpecX == InitX /\ [][NextX]_vars

(***************************************************************************)
(* Two invocations of the engine at the same time, each on a directory of  *)
(* its own: pack, which copies its directory to a temporary directory and  *)
(* normalises the copy, and _check_xsd, which extracts the original        *)
(* package to a temporary directory and compares.  A directory is a        *)
(* function from part names to files [tree, log]: the part as minidom      *)
(* parses it and the errors its schema reports for it.  A step is one      *)
(* access to the disk; the steps of the two invocations interleave freely. *)
(***************************************************************************)
Workers == {1, 2}

TempNames == {"tmpA", "tmpB"}

OwnDir(i) == IF i = 1 THEN "session1" ELSE "session2"

XmlFile(tree, log) == [tree |-> tree, log |-> log]

\* a directory that does not exist is read as one without files
ReadDir(d, name) == IF name \in DOMAIN d THEN d[name] ELSE <<>>

WriteDir(d, name, content) == [n \in DOMAIN d \cup {name} |-> IF n = name THEN content ELSE d[n]]

RemoveDir(d, name) == [n \in DOMAIN d \ {name} |-> d[n]]

\* every temporary name, taken on the disk or not
AnyNames(d) == TempNames

\* tempfile.TemporaryDirectory(): mkdtemp creates a directory under a name
\* that does not exist yet
FreshNames(d) == TempNames \ DOMAIN d

\* _restore_smart_quotes on the text of a part
RECURSIVE RestoreNode(_)
RestoreNode(node) ==
    IF node.k = "text" THEN Text(RestoreSmartQuotes(node.v))
    ELSE IF node.k = "comment" THEN node
    ELSE Element(node.tag, [i \in 1..Len(node.kids) |-> RestoreNode(node.kids[i])])

\* the loop of pack over the files of the copy
PackDir(dir) ==
    [f \in DOMAIN dir |-> XmlFile(CondenseTree(RestoreNode(dir[f].tree)), dir[f].log)]

\* the parts of a directory as _validate_one_file_xsd reads them
AsXmlParts(dir) == [f \in DOMAIN dir |-> XmlPart(TRUE, <<>>, {}, dir[f].log)]

\* the loop of _check_xsd over xml_files, the original read from original
XsdLoop(dir, original) ==
    CheckXsd(AsXmlParts(dir), IF original = <<>> THEN <<>> ELSE <<AsXmlParts(original)>>,
             [dir |-> TRUE, broken |-> {}])

\* what an invocation returns when it runs alone
Alone(op, dir, arg) ==
    IF op = "pack" THEN PackDir(dir)
    ELSE XsdLoop(dir, IF arg = <<>> THEN <<>> ELSE arg[1])

TreeChoices ==
    {Element("p:sp", <<Text(<<"s">>), Element("a:t", <<Text(<<"&#x201C;">>)>>)>>),
     Element("p:sp", <<Comment, Element("a:t", <<Text(<<"s">>)>>)>>)}

DirChoices ==
    {[f \in {SlidePart(1)} |-> XmlFile(tree, log)] :
        tree \in TreeChoices, log \in {{XsdError("m1", 1)}, {XsdError("m1", 1), XsdError("m2", 1)}}}

\* original_bytes: none, or the package before the edit
OriginalChoices ==
    {<<>>} \cup {<<[f \in {SlidePart(1)} |-> XmlFile(NoDoc, log)]>> :
                    log \in {{}, {XsdError("m1", 1)}}}

Invocation(op, own, arg, input) ==
    [op |-> op, pc |-> "start", own |-> own, arg |-> arg, tmp |-> "",
     out |-> IF op = "pack" THEN <<>> ELSE {}, input |-> input]

InitC ==
    /\ PlainSession
    /\ NotNormalising
    /\ \E dirs \in [Workers -> DirChoices], op \in [Workers -> {"pack", "check_xsd"}] :
       \E orig \in [Workers -> OriginalChoices] :
           /\ \A i \in Workers : op[i] = "pack" => orig[i] = <<>>
           /\ disk = [n \in {OwnDir(i) : i \in Workers} |->
                         dirs[CHOOSE i \in Workers : OwnDir(i) = n]]
           /\ inv = [i \in Workers |-> Invocation(op[i], OwnDir(i), orig[i], dirs[i])]

Engine == UNCHANGED <<files, rels, bytes, pres, presRels, manifest, pending, archive, ops,
                      plan, last, xmlParts, env, report, doc, raw, norm>>

\* with tempfile.TemporaryDirectory() as temp_dir  (pack)
\* if original_bytes: temp_obj = tempfile.TemporaryDirectory()  (_check_xsd)
MakeTemp(i) ==
    /\ inv[i].pc = "start"
    /\ IF inv[i].op = "check_xsd" /\ inv[i].arg = <<>>
       THEN /\ inv' = [inv EXCEPT ![i].pc = "ready"]
            /\ UNCHANGED disk
       ELSE \E name \in FreshNames(disk) :
                /\ disk' = WriteDir(disk, name, <<>>)
                /\ inv' = [inv EXCEPT ![i].pc = "made", ![i].tmp = name]
    /\ Engine

\* shutil.copytree(input_dir, temp_content_dir)  (pack)
\* zf.extractall(original_dir)  (_check_xsd)
Populate(i) ==
    /\ inv[i].pc = "made"
    /\ IF inv[i].op = "pack"
       THEN /\ disk' = WriteDir(disk, inv[i].tmp, ReadDir(disk, inv[i].own))
            /\ inv' = [inv EXCEPT ![i].pc = "copied"]
       ELSE /\ disk' = WriteDir(disk, inv[i].tmp, inv[i].arg[1])
            /\ inv' = [inv EXCEPT ![i].pc = "ready"]
    /\ Engine

\* pack: _restore_smart_quotes and _condense_xml on every file of the copy
Process(i) ==
    /\ inv[i].pc = "copied"
    /\ disk' = [disk EXCEPT ![inv[i].tmp] = PackDir(ReadDir(disk, inv[i].tmp))]
    /\ inv' = [inv EXCEPT ![i].pc = "ready"]
    /\ Engine

\* pack: the ZIP of the files of the copy
\* _check_xsd: the loop over xml_files, the original read from original_dir
Collect(i) ==
    /\ inv[i].pc = "ready"
    /\ inv' = [inv EXCEPT ![i].pc = "collected",
                          ![i].out = IF inv[i].op = "pack" THEN ReadDir(disk, inv[i].tmp)
                                     ELSE XsdLoop(ReadDir(disk, inv[i].own),
                                                  IF inv[i].tmp = "" THEN <<>>
                                                  ELSE ReadDir(disk, inv[i].tmp))]
    /\ UNCHANGED disk
    /\ Engine

\* the end of the with block (pack); temp_obj.cleanup() (_check_xsd)
Cleanup(i) ==
    /\ inv[i].pc = "collected"
    /\ disk' = RemoveDir(disk, inv[i].tmp)
    /\ inv' = [inv EXCEPT ![i].pc = "done"]
    /\ Engine

NextC ==
    \/ \E i \in Workers : MakeTemp(i)
    \/ \E i \in Workers : Populate(i)
    \/ \E i \in Workers : Process(i)
    \/ \E i \in Workers : Collect(i)
    \/ \E i \in Workers : Cleanup(i)

SpecC == InitC /\ [][NextC]_vars

(***************************************************************************)
(* Notions the properties are stated in.                                   *)
(***************************************************************************)
\* the ordered slide list of a presentation part
SlideList(p) == SldIdEntries(p)

\* the slide parts the ordered slide list reaches through a relationship of
\* the presentation's relationships file
ListedSlides(p, pr) ==
    {f \in {pr[i].to : i \in 1..Len(pr)} :
        /\ f.d = "slides"
        /\ \E i \in 1..Len(pr), k \in 1..Len(SlideList(p)) :
              pr[i].to = f /\ pr[i].id = SlideList(p)[k].rid}

\* the list entry reaches slide part f
Reaches(e, f, pr) == \E i \in 1..Len(pr) : pr[i].id = e.rid /\ pr[i].to = f

RelIds(pr) == {pr[i].id : i \in 1..Len(pr)}

\* the targets of part f under the package rules: a leading "/" is
\* root-relative, otherwise relative to the owning part; both name r.to
PackageTargets(t, f) ==
    IF RelsFile(f) \in DOMAIN t.rels THEN {r.to : r \in t.rels[RelsFile(f)]} ELSE {}

RECURSIVE Closure(_, _)
Closure(t, S) ==
    LET next == S \cup UNION {PackageTargets(t, f) : f \in S}
    IN  IF next = S THEN S ELSE Closure(t, next)

\* the parts of tree t reachable from the ordered slide list
Reachable(t) == Closure(t, ListedSlides(t.pres, t.presRels)) \cap t.files

CleanCalled == last.op = "clean"

(***************************************************************************)
(* C1: a clean that directly follows a clean removes nothing and leaves    *)
(* the tree (parts, relationships files, manifest) as the first left it.   *)
(***************************************************************************)
C1_CleanFixpoint ==
    (CleanCalled /\ last.prevOp = "clean") => (last.removed = {} /\ Tree = last.pre)

\* a second clean in a row, the first of which needed more than one pass
C1_Witness ==
    /\ CleanCalled /\ last.prevOp = "clean"
    /\ last.prevRemoved # {}
    /\ last.removed = {}

(***************************************************************************)
(* C2: in every reachable package the numeric slide ids of the ordered     *)
(* slide list are pairwise distinct and so are the relationship ids of the *)
(* presentation's relationships file; two results of duplicate_slide that  *)
(* are both waiting to be inserted do not carry the same numeric slide id. *)
(***************************************************************************)
C2_IdsUnique ==
    /\ Cardinality(SlideIds(pres)) = Len(SlideList(pres))
    /\ Cardinality(RelIds(presRels)) = Len(presRels)
    /\ \A a, b \in pending : a # b => a.new_sld_id # b.new_sld_id

(***************************************************************************)
(* C3: duplicate_slide returns a numeric id that is in no entry of the     *)
(* ordered slide list and a relationship id that is in no relationship of  *)
(* the presentation's relationships file; an insert_slide of these         *)
(* identifiers right after adds an id the list did not hold; neither call  *)
(* changes the slide master ids (in the head of the presentation part) or  *)
(* the slide master and slide layout parts.                                *)
(***************************************************************************)
MastersAndLayoutsKept ==
    /\ SelectSeq(pres, LAMBDA k : k.t = "head")
          = SelectSeq(last.pre.pres, LAMBDA k : k.t = "head")
    /\ \A f \in DOMAIN last.pre.bytes :
          f.d \in {"slideMasters", "slideLayouts"}
              => f \in DOMAIN bytes /\ bytes[f] = last.pre.bytes[f]

C3_FreshIds ==
    /\ (last.op = "duplicate" /\ last.err = "") =>
          /\ last.ret.new_sld_id \notin SlideIds(last.pre.pres)
          /\ last.ret.new_r_id \notin RelIds(last.pre.presRels)
          /\ MastersAndLayoutsKept
    /\ (last.op = "insert" /\ last.prevOp = "duplicate" /\ last.prevRet = last.ret) =>
          /\ last.ret.new_sld_id \notin SlideIds(last.pre.pres)
          /\ MastersAndLayoutsKept

\* the clone of a slide was inserted into a list that held slides already
C3_Witness ==
    /\ last.op = "insert" /\ last.prevOp = "duplicate" /\ last.prevRet = last.ret
    /\ SlideIds(last.pre.pres) # {}
    /\ last.ret.new_sld_id \in SlideIds(pres)
    /\ last.ret.new_r_id \in RelIds(presRels)

(***************************************************************************)
(* C4: insert_slide with a position p on a list of n entries gives a list  *)
(* of n + 1 entries with the new entry at 1-based position                 *)
(* min(max(p, 1), n + 1) and the old entries in their order.               *)
(***************************************************************************)
ClampedPosition(p, n) == IF p < 1 THEN 1 ELSE IF p > n + 1 THEN n + 1 ELSE p

C4_InsertClamped ==
    (last.op = "insert" /\ last.pos # NoPos) =>
        LET old == SlideList(last.pre.pres)
            new == SlideList(pres)
            k == ClampedPosition(last.pos, Len(old))
        IN  /\ Len(new) = Len(old) + 1
            /\ new[k] = SldId(last.ret.new_sld_id, last.ret.new_r_id)
            /\ SubSeq(new, 1, k - 1) \o SubSeq(new, k + 1, Len(new)) = old

(***************************************************************************)
(* C6: clean deletes no part that is reachable from the ordered slide list *)
(* through the relationship graph (targets resolved by the package rules), *)
(* and not the relationships file of such a part.                          *)
(***************************************************************************)
C6_CleanKeepsReachable ==
    CleanCalled =>
        \A f \in Reachable(last.pre) :
            /\ f \in files
            /\ RelsFile(f) \in last.pre.files => RelsFile(f) \in files

(***************************************************************************)
(* C7: after clean every slide part under ppt/slides is reached by the     *)
(* ordered slide list through the presentation's relationships file; every *)
(* slide part the list reached before is still there with the same bytes;  *)
(* a deleted slide part has lost its relationships file too, and both      *)
(* paths are in the returned list.                                         *)
(***************************************************************************)
C7_CleanSlides ==
    CleanCalled =>
        /\ SlideFiles(files) \subseteq ListedSlides(pres, presRels)
        /\ \A f \in ListedSlides(last.pre.pres, last.pre.presRels) \cap last.pre.files :
              f \in files /\ bytes[f] = last.pre.bytes[f]
        /\ \A f \in SlideFiles(last.pre.files) \ files :
              /\ f \in last.removed
              /\ RelsFile(f) \notin files
              /\ RelsFile(f) \in last.pre.files => RelsFile(f) \in last.removed

(***************************************************************************)
(* C8: after clean every override of the manifest names a part that is in  *)
(* the package.                                                            *)
(***************************************************************************)
C8_ManifestNamesParts == CleanCalled => manifest \subseteq files

(***************************************************************************)
(* C9: remove_slide(f) changes nothing but the ordered slide list, from    *)
(* which it takes the entries that reach f, leaving the others in order;   *)
(* when the slide part is there, the clean that follows deletes it and its *)
(* relationships file, and removes its relationship from the               *)
(* presentation's relationships file and its override from the manifest.   *)
(***************************************************************************)
C9_RemoveThenClean ==
    /\ last.op = "remove" =>
          /\ Tree = [last.pre EXCEPT !.pres = pres]
          /\ pres = SelectSeq(last.pre.pres,
                        LAMBDA k : ~(k.t = "sldId"
                                     /\ Reaches(k, SlidePart(last.arg), presRels)))
    /\ (CleanCalled /\ last.prevOp = "remove" /\ last.prevErr = ""
            /\ SlidePart(last.prevArg) \in last.pre.files) =>
          LET f == SlidePart(last.prevArg)
          IN  /\ f \notin files
              /\ RelsFile(f) \notin files
              /\ \A i \in 1..Len(presRels) : presRels[i].to # f
              /\ f \notin manifest

(***************************************************************************)
(* C10: duplicate_slide of a file name that is no slide part of the        *)
(* package fails with the source-not-found error and changes nothing.      *)
(***************************************************************************)
C10_SourceNotFound ==
    (last.op = "duplicate" /\ SlidePart(last.arg) \notin last.pre.files) =>
        /\ last.err = "SourceNotFound"
        /\ last.ret = NoResult
        /\ Tree = last.pre

\* duplicate_slide was called for a slide that is not there, in a package
\* that has other slides
C10_Witness ==
    /\ last.op = "duplicate" /\ last.err = "SourceNotFound"
    /\ SlidePart(last.arg) \notin files
    /\ SlideFiles(files) # {}

(***************************************************************************)
(* C5: at the end of the planned edit of a consistent package of n slides  *)
(* the presentation part read back holds an ordered slide list of n + 1    *)
(* entries with the duplicate at 0-based index position - 1; the duplicate *)
(* and its relationships file are in the package, and no relationships     *)
(* file is left without its owning part.                                   *)
(***************************************************************************)
E2EDone == plan # <<>> /\ ops = 5 /\ last.op = "unpack"

C5_ListReadBack ==
    /\ Len(SlideList(pres)) = plan[1].n + 1
    /\ Reaches(SlideList(pres)[plan[1].position], SlidePart(plan[1].n + 1), presRels)
    /\ {SlidePart(plan[1].n + 1), RelsFile(SlidePart(plan[1].n + 1))} \subseteq files
    /\ \A rf \in files : rf.r => OwnerOf(rf) \in files

C5_EndToEnd == E2EDone => (WellFormed(pres) /\ C5_ListReadBack)

(***************************************************************************)
(* C11: a successful duplicate_slide names the clone slideN.xml with N one *)
(* more than the largest number of a slide part there was; that name was   *)
(* no part before, every slide part there was is still there with its      *)
(* bytes, and the clone holds the bytes of the source.                     *)
(***************************************************************************)
DuplicateDone == last.op = "duplicate" /\ last.err = ""

C11_CloneName ==
    DuplicateDone =>
        LET before == SlideFiles(last.pre.files)
            clone == SlidePart(last.ret.new_filename)
        IN  /\ last.ret.new_filename = Max({f.n : f \in before}) + 1
            /\ clone \notin last.pre.files
            /\ clone \in files
            /\ \A f \in before : f \in files /\ bytes[f] = last.pre.bytes[f]
            /\ bytes[clone] = last.pre.bytes[SlidePart(last.arg)]

\* a slide was duplicated that is not the one with the largest number
C11_Witness ==
    /\ DuplicateDone
    /\ last.ret.new_filename > last.arg + 1
    /\ SlidePart(last.ret.new_filename) \in files

(***************************************************************************)
(* C12: the relationships file of the clone holds the relationships of the *)
(* source that are no notes-slide relationship, and no others; a package   *)
(* in which no notes slide is referenced by two slides is still such a     *)
(* package after duplicate_slide.                                          *)
(***************************************************************************)
\* _check_notes_slides: the notes-slide targets, as written, that more than
\* one slide relationships file names
SharedNotes(t) ==
    LET slideRels == {rf \in DOMAIN t.rels : rf.d = "slides"}
        notesOf(rf) == {[abs |-> x.abs, to |-> x.to] :
                            x \in {y \in t.rels[rf] : y.type = "notesSlide"}}
    IN  {k \in UNION {notesOf(rf) : rf \in slideRels} :
            Cardinality({rf \in slideRels : k \in notesOf(rf)}) > 1}

C12_CloneDropsNotes ==
    (DuplicateDone /\ RelsFile(SlidePart(last.arg)) \in last.pre.files) =>
        /\ RelsFile(SlidePart(last.ret.new_filename)) \in files
        /\ rels[RelsFile(SlidePart(last.ret.new_filename))]
              = {x \in last.pre.rels[RelsFile(SlidePart(last.arg))] : x.type # "notesSlide"}
        /\ SharedNotes(last.pre) = {} => SharedNotes(Tree) = {}

\* a slide that has a notes slide was duplicated
C12_Witness ==
    /\ DuplicateDone
    /\ \E x \in last.pre.rels[RelsFile(SlidePart(last.arg))] : x.type = "notesSlide"
    /\ rels[RelsFile(SlidePart(last.ret.new_filename))] # {}

(***************************************************************************)
(* C13: after a successful duplicate_slide the manifest has an override    *)
(* for the new slide part, and the presentation's relationships file has a *)
(* slide relationship with the returned relationship id whose target is    *)
(* the new slide part.                                                     *)
(***************************************************************************)
C13_CloneRegistered ==
    DuplicateDone =>
        /\ SlidePart(last.ret.new_filename) \in manifest
        /\ \E i \in 1..Len(presRels) :
              /\ presRels[i].id = last.ret.new_r_id
              /\ presRels[i].type = "slide"
              /\ presRels[i].to = SlidePart(last.ret.new_filename)

(***************************************************************************)
(* C14: duplicate_slide, successful or not, leaves the presentation part,  *)
(* and so the ordered slide list, as it was: the clone is in the package   *)
(* and not in the list.                                                    *)
(***************************************************************************)
C14_DuplicateKeepsList == last.op = "duplicate" => pres = last.pre.pres

\* a slide of a package with a non-empty slide list was duplicated
C14_Witness ==
    /\ DuplicateDone
    /\ SlideList(pres) # <<>>
    /\ SlidePart(last.ret.new_filename) \notin ListedSlides(pres, presRels)

(***************************************************************************)
(* Validation: what the properties are stated in.                          *)
(***************************************************************************)
ValidateDone == report.op = "validate"

\* the parts of the validated directory that do not parse
Malformed == {f \in DOMAIN report.pre : ~report.pre[f].wf}

\* the text-run elements of a part whose text begins or ends with a space
\* or tab and that lack the whitespace-preserve flag
Unflagged(p) ==
    {i \in DOMAIN p.elems : /\ p.elems[i].tag \in {"a:t", "dgm:t"}
                            /\ p.elems[i].first \in {"lead", "trail"}
                            /\ p.elems[i].space # "preserve"}

RECURSIVE UnflaggedIn(_, _)
UnflaggedIn(parts, todo) ==
    IF todo = {} THEN 0
    ELSE LET f == CHOOSE g \in todo : TRUE
         IN (IF parts[f].wf THEN Cardinality(Unflagged(parts[f])) ELSE 0)
            + UnflaggedIn(parts, todo \ {f})

\* C15: validate runs the repair, then the well-formedness check, then the
\* structural checks, then the schema check; when at least one part is not
\* well-formed it stops after the well-formedness check with valid = false,
\* the well-formedness errors as the only structural errors and no schema
\* error, and the repairs made before are still counted in the result.
C15_MalformedShortCircuits ==
    ValidateDone =>
        /\ report.result.repairs = UnflaggedIn(report.pre, DOMAIN report.pre)
        /\ Malformed = {} =>
               report.phases = <<"repair", "wellformed", "structural", "schema">>
        /\ Malformed # {} =>
               /\ report.phases = <<"repair", "wellformed">>
               /\ ~report.result.valid
               /\ report.result.errors # {}
               /\ \A e \in report.result.errors : e.check = "wellformed"
               /\ report.result.xsd_errors = {}

C15_Witness ==
    /\ ValidateDone
    /\ Malformed # {}
    /\ report.result.repairs > 0
    /\ \E f \in DOMAIN report.pre :
           report.pre[f].wf /\ report.pre[f].viol # {} /\ report.pre[f].log # {}

\* C16 as stated: a part that is not well-formed stops the structural and
\* schema checks for that part only; the violations of the well-formed
\* parts of the package are still reported in the same result.
C16_OtherPartsChecked ==
    (ValidateDone /\ Malformed # {}) =>
        \A f \in DOMAIN report.pre : report.pre[f].wf =>
            /\ \A c \in report.pre[f].viol :
                   [check |-> c, part |-> f] \in report.result.errors
            /\ (/\ env.schemas = [dir |-> TRUE, broken |-> {}]
                /\ env.baseline = <<>>
                /\ GetSchemaPath(f) # ""
                /\ \E e \in report.pre[f].log : e.msg # "xml:space")
               => \E x \in report.result.xsd_errors : x.part = f

\* C16, amended: a part that is not well-formed stops the structural and
\* schema checks for the whole package; the result names every part that
\* is not well-formed and no well-formed part.
C16_MalformedStopsPackage ==
    (ValidateDone /\ Malformed # {}) =>
        /\ \A f \in Malformed : \E e \in report.result.errors : e.part = f
        /\ \A f \in DOMAIN report.pre \ Malformed :
               /\ \A e \in report.result.errors : e.part # f
               /\ \A x \in report.result.xsd_errors : x.part # f

C16_Witness ==
    /\ ValidateDone
    /\ Cardinality(Malformed) = 2
    /\ \E f \in DOMAIN report.pre : report.pre[f].wf /\ report.pre[f].log # {}

\* C17: in every result of validate, valid is true exactly when the
\* structural errors and the schema errors are both empty, whatever the
\* number of repairs.
C17_ValidIffNoErrors ==
    ValidateDone =>
        (report.result.valid <=>
            (report.result.errors = {} /\ report.result.xsd_errors = {}))

C17_Witness ==
    /\ ValidateDone
    /\ report.result.valid
    /\ report.result.repairs > 0

\* C18: when the schema directory or a schema file cannot be loaded,
\* validate skips the schema checks that need it: no schema error is
\* reported because of the missing schema, and valid is decided by the
\* remaining checks.
C18_SchemaUnavailableSkipped ==
    (ValidateDone /\ Malformed = {}) =>
        /\ \A x \in report.result.xsd_errors :
               /\ x.part \in DOMAIN report.pre
               /\ env.schemas.dir
               /\ GetSchemaPath(x.part) \notin env.schemas.broken
        /\ ~env.schemas.dir =>
               /\ report.result.xsd_errors = {}
               /\ report.result.valid <=> report.result.errors = {}

\* the schema errors of part f of the validated directory that are no
\* errors of the same part of the baseline and not on the allow-list
GenuinelyNew(f) ==
    {e \in xmlParts[f].log :
        /\ e.msg # "xml:space"
        /\ ~(f \in DOMAIN env.baseline[1] /\ e \in env.baseline[1][f].log)}

\* C19: with a baseline, the schema errors reported for a part are exactly
\* the errors of the candidate part that are no errors of the same part in
\* the baseline and not on the allow-list: a candidate equal to the
\* baseline reports none, one baseline error plus one new error reports
\* one, a part absent from the baseline reports all its errors.
C19_OnlyNewErrors ==
    (/\ ValidateDone
     /\ Malformed = {}
     /\ env.baseline # <<>>
     /\ env.schemas = [dir |-> TRUE, broken |-> {}]) =>
        \A f \in DOMAIN xmlParts : GetSchemaPath(f) # "" =>
            /\ GenuinelyNew(f) = {} =>
                   \A x \in report.result.xsd_errors : x.part # f
            /\ GenuinelyNew(f) # {} =>
                   \E x \in report.result.xsd_errors :
                       /\ x.part = f
                       /\ x.n = Cardinality(GenuinelyNew(f))
                       /\ x.msgs = {e.msg : e \in GenuinelyNew(f)}

Containers(p) == {i \in 1..Len(p) : p[i].t \in {"open", "empty"}}

\* presentation.xml without the entries of the slide list
OutsideEntries(p) == SelectSeq(p, LAMBDA k : k.t # "sldId")

(***************************************************************************)
(* C27: add_slide_to_presentation changes only the ordered slide list: on  *)
(* a well-formed presentation.xml with a non-empty list, with or without a *)
(* position, the part afterwards holds exactly one slide-list container    *)
(* with the previous entries plus the new one, everything outside the      *)
(* entries is as before, and without a position the new entry is the last. *)
(***************************************************************************)
C27_InsertOnlyList ==
    (/\ last.op = "insert"
     /\ WellFormed(last.pre.pres)
     /\ SlideList(last.pre.pres) # <<>>) =>
        LET old == SlideList(last.pre.pres)
            new == SlideList(pres)
            entry == SldId(last.ret.new_sld_id, last.ret.new_r_id)
        IN  /\ Cardinality(Containers(pres)) = 1
            /\ WellFormed(pres)
            /\ OutsideEntries(pres) = OutsideEntries(last.pre.pres)
            /\ Len(new) = Len(old) + 1
            /\ \E k \in 1..Len(new) :
                   /\ new[k] = entry
                   /\ SubSeq(new, 1, k - 1) \o SubSeq(new, k + 1, Len(new)) = old
            /\ last.pos = NoPos => new = Append(old, entry)

\* the directories whose files the resource sweep of clean deletes
SweptDirs ==
    {"media", "embeddings", "charts", "diagrams", "tags", "drawings", "ink", "theme",
     "notesSlides"}

\* the parts some relationship of an existing relationships file targets
Targeted ==
    UNION {{x.to : x \in rels[rf]} : rf \in DOMAIN rels \cap files}
        \cup {presRels[i].to : i \in 1..Len(presRels)}

(***************************************************************************)
(* C28: after clean every file left in the swept resource directories      *)
(* (media, embeddings, charts, diagrams, tags, drawings, ink, themes,      *)
(* notes slides) is the target of a relationship of a relationships file   *)
(* that still exists.                                                      *)
(***************************************************************************)
C28_SweptFilesTargeted ==
    CleanCalled =>
        \A f \in files : (~f.r /\ f.d \in SweptDirs) => f \in Targeted

\* a clean that needed more than one pass and left resource files
C28_Witness ==
    /\ CleanCalled
    /\ last.passes > 2
    /\ \E f \in files, g \in last.removed :
           /\ ~f.r /\ f.d \in SweptDirs
           /\ ~g.r /\ g.d \in SweptDirs

(***************************************************************************)
(* C29: after clean the presentation's relationships file holds no slide   *)
(* relationship whose target is a slide outside the ordered slide list,    *)
(* also when the relationship was dangling before and clean deleted no     *)
(* slide part.                                                             *)
(***************************************************************************)
C29_NoUnlistedSlideRel ==
    CleanCalled =>
        \A i \in 1..Len(presRels) :
            (presRels[i].type = "slide" /\ presRels[i].to.d = "slides") =>
                presRels[i].to \in ListedSlides(pres, presRels)

\* from this tree on, every pass of the sweep either removes nothing and
\* leaves the files as they are, or deletes at least one file and creates none
RECURSIVE PassesShrink(_, _, _)
PassesShrink(f, r, pr) ==
    LET p == SweepPass(f, r, pr)
    IN  IF p.removed = {} THEN p.files = f
        ELSE /\ p.removed \subseteq f
             /\ p.files = f \ p.removed
             /\ p.files # f
             /\ PassesShrink(p.files, p.rels, pr)

(***************************************************************************)
(* C30: clean terminates: no pass of the resource sweep creates a file,    *)
(* every pass but the last deletes at least one file, so the loop makes at *)
(* most (number of files + 1) passes.                                      *)
(***************************************************************************)
C30_CleanTerminates ==
    /\ PassesShrink(files, rels, presRels)
    /\ CleanCalled =>
        /\ files \subseteq last.pre.files
        /\ last.removed = last.pre.files \ files
        /\ last.passes >= 1
        /\ last.passes <= Cardinality(last.removed) + 1
        /\ last.passes <= Cardinality(last.pre.files) + 1

\* a clean whose loop made two deleting passes before the pass that ended it
C30_Witness == CleanCalled /\ last.passes >= 3

\* the relationships files of the slides
SlideRelsFiles == {rf \in DOMAIN rels \cap files : rf.r /\ rf.d = "slides"}

(***************************************************************************)
(* C21: the single-layout check reports an error for every slide           *)
(* relationships file whose number of slide-layout relationships is not    *)
(* exactly one, zero as well as two or more, and nothing for a file with   *)
(* exactly one.                                                            *)
(***************************************************************************)
C21_ExactlyOneLayout ==
    report.op = "check_no_duplicate_layouts" =>
        \A rf \in SlideRelsFiles :
            (\E e \in report.errors : e.part = rf)
                <=> Cardinality({x \in rels[rf] : x.type = "slideLayout"}) # 1

(***************************************************************************)
(* C22: the reference check reports an error for a relationship exactly    *)
(* when the relationship is internal and its target, resolved by the       *)
(* package rules, is no existing part; a relationship with a               *)
(* scheme-prefixed target never gives a reference error, whatever the      *)
(* scheme.                                                                 *)
(***************************************************************************)
C22_BrokenInternalOnly ==
    report.op = "check_file_references" =>
        \A rf \in DOMAIN rels \cap files : \A x \in rels[rf] :
            ([part |-> rf, rel |-> x] \in report.errors)
                <=> (x.to.d \notin {"http:", "https:", "mailto:", "file:", "ftp:"}
                     /\ x.to \notin files)

(***************************************************************************)
(* Properties of the normaliser.                                           *)
(***************************************************************************)
SmartQuotes == DOMAIN SMART_QUOTE_REPLACEMENTS

HasSmartQuote(content) == \E i \in 1..Len(content) : content[i] \in SmartQuotes

HasLiteralReference(content) ==
    \E i \in 1..Len(content) : content[i] \in DOMAIN SMART_QUOTE_RESTORE

\* local name "t", with any namespace prefix or none
LocalNameT(tag) == tag \in {"a:t", "dgm:t", "t"}

\* the content of every element with local name t, in document order
RECURSIVE TextRuns(_)
TextRuns(node) ==
    IF node.k # "elem" THEN <<>>
    ELSE (IF LocalNameT(node.tag) THEN <<node.kids>> ELSE <<>>)
         \o Join([i \in 1..Len(node.kids) |-> TextRuns(node.kids[i])])

\* some element of the part has a text node next to other children
RECURSIVE MixesText(_)
MixesText(node) ==
    /\ node.k = "elem"
    /\ \/ Len(node.kids) >= 2 /\ \E i \in 1..Len(node.kids) : node.kids[i].k = "text"
       \/ \E i \in 1..Len(node.kids) : MixesText(node.kids[i])

(* C23: condense leaves the content of every element whose local name is   *)
(* t identical, whatever the namespace prefix of the element, none         *)
(* included, and also when the content is whitespace only.                 *)
C23_TextRunsKept ==
    norm.op = "condense" => TextRuns(doc) = TextRuns(norm.pre)

(* C24: for a part C that condense has written, condensing the prettified  *)
(* C gives C again, also when an element of C mixes text and elements.     *)
C24_PrettifyCondense ==
    (norm.op = "condense" /\ norm.prevOp = "prettify" /\ norm.pprevOp = "condense")
        => doc = norm.prevPre

(* C25: restoring the escaped text x gives x for every x with a smart      *)
(* quote in it, also when x holds one of the four character references     *)
(* literally; and escaping twice equals escaping once, restoring twice     *)
(* equals restoring once.                                                  *)
C25_RoundTripIdempotent ==
    /\ (norm.op = "restore" /\ norm.prevOp = "escape" /\ HasSmartQuote(norm.prevPre))
           => raw = norm.prevPre
    /\ (norm.op \in {"escape", "restore"} /\ norm.prevOp = norm.op) => raw = norm.pre

(***************************************************************************)
(* Properties of concurrent invocations.                                   *)
(***************************************************************************)
Returned(i) == inv # <<>> /\ inv[i].pc \in {"collected", "done"}

\* the directories an invocation reads or writes
WorkingArea(i) == {inv[i].own} \cup (IF inv[i].tmp = "" THEN {} ELSE {inv[i].tmp})

(* C26: two invocations running at the same time on directories of their   *)
(* own do not interfere: however their steps interleave, each one leaves   *)
(* its directory as it was given and returns what it returns when run      *)
(* alone, and the two never work in the same directory.                    *)
C26_NoInterference ==
    inv # <<>> =>
        /\ \A i \in Workers :
               /\ ReadDir(disk, inv[i].own) = inv[i].input
               /\ Returned(i) => inv[i].out = Alone(inv[i].op, inv[i].input, inv[i].arg)
        /\ \A i, j \in Workers :
               (i # j /\ inv[i].pc # "done" /\ inv[j].pc # "done")
                   => WorkingArea(i) \cap WorkingArea(j) = {}

C26_Witness ==
    /\ inv # <<>>
    /\ \A i \in Workers : Returned(i)
    /\ \E i, j \in Workers : inv[i].op = "pack" /\ inv[j].op = "check_xsd" /\ inv[j].arg # <<>>
    /\ inv[1].pc = "collected" /\ inv[2].pc = "collected"

====
